---- MODULE Spec2Model ----
(***************************************************************************)
(* State-machine model of the ML arbitrage scanner (mae-kelly/ayo):        *)
(*   - TerminalScraper   (src/src/terminal_scraper.py)                     *)
(*   - MLArbitrageSystem (src/ml_scanner.py), with the collaborators it    *)
(*     calls (PairResearcher, HoneypotDetector, ExecutionPredictor,        *)
(*     DatabaseManager)                                                    *)
(*                                                                         *)
(* Representation.                                                         *)
(*  * A text is a sequence of tokens.  NL is the newline character; every  *)
(*    other token is a maximal run of non-newline characters, given by     *)
(*    what the scraper's regular expressions find in it (a "match          *)
(*    record", see Txt).  A line handed to parse_line is a text; after     *)
(*    strip() it is <<>> (blank) or <<m>> for one match record m.          *)
(*  * A numeric token is the tuple of the characters the pattern           *)
(*    captured, e.g. <<"1",".","2",".","3">> for "1.2.3".  [\d.]+ accepts  *)
(*    any non-empty mix of digits and dots; float() does not.              *)
(*  * A Python float is held in thousandths (1.5 is 1500): exact for the   *)
(*    tokens of the model, which carry at most three decimals.             *)
(*  * A Python dict is a function on the set of its keys; {} is EmptyDict. *)
(***************************************************************************)
EXTENDS Integers, Sequences, FiniteSets, TLC

VARIABLES
    buffer,                 \* TerminalScraper.buffer
    current_opportunity,    \* TerminalScraper.current_opportunity
    now,                    \* the wall clock read by datetime.now()
    fed,                    \* history: every line handed to the scraper, in order
    emitted,                \* history: every record the scraper returned, in order
    ret,                    \* the records returned by the last call
    raised,                 \* the last call raised instead of returning
    trigger,                \* the emission paths the last call took
    api,                    \* the entry point of the last call: "line", "batch", "none"
    block,                  \* the text block under test in IdemSpec
    calls,                  \* IdemSpec: outcomes of the parse_batch calls on block
    is_running,             \* MLArbitrageSystem.is_running
    rust_process,           \* MLArbitrageSystem.rust_process: "None", "running", "terminated"
    opportunities_queue,    \* MLArbitrageSystem.opportunities_queue, oldest first
    cache,                  \* PairResearcher.cache: address -> contract data
    isolation_forest,       \* HoneypotDetector.isolation_forest is set
    known_honeypots,        \* HoneypotDetector.known_honeypots
    main,                   \* where main() stands: "init", "gather", "finally", "done"
    producer,               \* the scrape_terminal task: "none", "loop", "cancelled"
    consumer,               \* the process_opportunities task: "none", "get", "research", "cancelled"
    opportunity,            \* the consumer's local `opportunity` while a record is in flight
    stored,                 \* history: the calls of db.store_opportunity, in order
    predicted,              \* history: the records predict_viability was invoked for
    dequeued,               \* history: the records the consumer took from the queue
    reads,                  \* number of readline() calls made by the producer
    known_safe,             \* HoneypotDetector.known_safe
    execution_history,      \* ExecutionPredictor.execution_history, as its items
    success_rates,          \* ExecutionPredictor.success_rates, as its items
    executions,             \* history: the calls of update_execution_result, in order
    call,                   \* the scorer method called last: its arguments and result
    before                  \* the call the last one is compared with

\* The variables of the scraper and of the block experiment
svars == <<buffer, current_opportunity, now, fed, emitted, ret, raised, trigger, api,
           block, calls>>

\* The variables of MLArbitrageSystem and its collaborators
pvars == <<is_running, rust_process, opportunities_queue, cache, isolation_forest,
           known_honeypots, main, producer, consumer, opportunity, stored, predicted,
           dequeued, reads>>

\* The fields of the scorers the pipeline never writes, and the scorer calls
cvars == <<known_safe, execution_history, success_rates, executions, call, before>>

vars == <<svars, pvars, cvars>>

----------------------------------------------------------------------------
(* Bounds of the model *)

MaxLines == 4
MaxBatch == 2
MaxClock == 1

----------------------------------------------------------------------------
(* Python dicts *)

EmptyDict == [k \in {} |-> 0]

Has(d, k) == k \in DOMAIN d

Put(d, k, v) == [x \in (DOMAIN d) \cup {k} |-> IF x = k THEN v ELSE d[x]]

Truthy(d) == DOMAIN d # {}

Drop(d, k) == [x \in (DOMAIN d) \ {k} |-> d[x]]

----------------------------------------------------------------------------
(* Texts, lines and what the patterns find in them *)

NL == [k |-> "nl"]

\* A run of characters, by the groups each pattern of self.patterns would
\* capture in it (<<>>: the pattern does not match).
Txt(hdr, pair, dexes, amount, gross, gas, net, blk, flash, addrs) ==
    [k |-> "txt", hdr |-> hdr, pair |-> pair, dexes |-> dexes, amount |-> amount,
     gross |-> gross, gas |-> gas, net |-> net, block |-> blk, flash |-> flash,
     addrs |-> addrs]

RECURSIVE Strip(_)
Strip(s) ==
    IF s = <<>> THEN s
    ELSE IF Head(s) = NL THEN Strip(Tail(s))
    ELSE IF s[Len(s)] = NL THEN Strip(SubSeq(s, 1, Len(s) - 1))
    ELSE s

\* '\n'.join(lines)
RECURSIVE Join(_)
Join(ls) ==
    IF ls = <<>> THEN <<>>
    ELSE IF Len(ls) = 1 THEN ls[1]
    ELSE ls[1] \o <<NL>> \o Join(Tail(ls))

\* text.split('\n')
RECURSIVE SplitFrom(_, _)
SplitFrom(text, acc) ==
    IF text = <<>> THEN <<acc>>
    ELSE IF Head(text) = NL THEN <<acc>> \o SplitFrom(Tail(text), <<>>)
    ELSE SplitFrom(Tail(text), Append(acc, Head(text)))

Split(text) == SplitFrom(text, <<>>)

----------------------------------------------------------------------------
(* float() and int() on captured tokens *)

DigitVal(c) ==
    CASE c = "0" -> 0 [] c = "1" -> 1 [] c = "2" -> 2 [] c = "3" -> 3
      [] c = "4" -> 4 [] c = "5" -> 5 [] c = "6" -> 6 [] c = "7" -> 7
      [] c = "8" -> 8 [] c = "9" -> 9

RECURSIVE Nat10(_, _)
Nat10(tok, acc) ==
    IF tok = <<>> THEN acc ELSE Nat10(Tail(tok), 10 * acc + DigitVal(Head(tok)))

\* int(s) for s matched by \d+
IntOf(tok) == Nat10(tok, 0)

Dots(tok) == {i \in 1..Len(tok) : tok[i] = "."}

\* float(s) accepts s matched by [\d.]+ iff it has at most one dot and at
\* least one digit ("1.", ".5" and "15" are floats; "." and "1.2.3" are not).
FloatOk(tok) == Cardinality(Dots(tok)) <= 1 /\ Len(tok) > Cardinality(Dots(tok))

Pad3(frac) ==
    IF Len(frac) >= 3 THEN SubSeq(frac, 1, 3)
    ELSE IF Len(frac) = 2 THEN frac \o <<"0">>
    ELSE IF Len(frac) = 1 THEN frac \o <<"0", "0">>
    ELSE <<"0", "0", "0">>

\* The value of float(s), in thousandths, for a token FloatOk accepts.
FloatOf(tok) ==
    IF Dots(tok) = {} THEN 1000 * IntOf(tok)
    ELSE LET d == CHOOSE i \in Dots(tok) : TRUE
         IN 1000 * IntOf(SubSeq(tok, 1, d - 1)) + IntOf(Pad3(SubSeq(tok, d + 1, Len(tok))))

----------------------------------------------------------------------------
(* Rationals n/d (d > 0), kept in lowest terms *)

RECURSIVE Gcd(_, _)
Gcd(a, b) == IF b = 0 THEN a ELSE Gcd(b, a % b)

Rat(n, d) == LET g == Gcd(IF n < 0 THEN -n ELSE n, d) IN <<n \div g, d \div g>>

----------------------------------------------------------------------------
(* TerminalScraper *)

\* 'X' in name, for a venue name given as the sequence of its pieces
Contains(name, piece) == \E i \in 1..Len(name) : name[i] = piece

\* One statement group of _extract_fields: s is [cur, raised]; once a
\* conversion has raised, the rest of the method is not executed.
ExtractPair(s, m) ==
    IF s.raised \/ m.pair = <<>> THEN s
    ELSE [s EXCEPT !.cur = Put(Put(Put(@, "token0", m.pair[1]), "token1", m.pair[2]),
                               "pair", <<m.pair[1], "/", m.pair[2]>>)]

ExtractDexes(s, m) ==
    IF s.raised \/ m.dexes = <<>> THEN s
    ELSE [s EXCEPT !.cur = Put(Put(@, "buy_dex", m.dexes[1]), "sell_dex", m.dexes[2])]

ExtractAmount(s, m) ==
    IF s.raised \/ m.amount = <<>> THEN s
    ELSE IF ~FloatOk(m.amount[1]) THEN [s EXCEPT !.raised = TRUE]
    ELSE [s EXCEPT !.cur = Put(Put(@, "optimal_amount", FloatOf(m.amount[1])),
                               "amount_token", m.amount[2])]

ExtractGross(s, m) ==
    IF s.raised \/ m.gross = <<>> THEN s
    ELSE IF ~FloatOk(m.gross[1]) THEN [s EXCEPT !.raised = TRUE]
    ELSE [s EXCEPT !.cur = Put(Put(@, "gross_profit_usd", FloatOf(m.gross[1])),
                               "gross_profit_wei", IntOf(m.gross[2]))]

ExtractGas(s, m) ==
    IF s.raised \/ m.gas = <<>> THEN s
    ELSE IF ~FloatOk(m.gas[1]) THEN [s EXCEPT !.raised = TRUE]
    ELSE [s EXCEPT !.cur = Put(@, "gas_cost", FloatOf(m.gas[1]))]

ExtractNet(s, m) ==
    IF s.raised \/ m.net = <<>> THEN s
    ELSE IF ~FloatOk(m.net[1]) THEN [s EXCEPT !.raised = TRUE]
    ELSE [s EXCEPT !.cur = Put(@, "net_profit", FloatOf(m.net[1]))]

ExtractBlock(s, m) ==
    IF s.raised \/ m.block = <<>> THEN s
    ELSE [s EXCEPT !.cur = Put(@, "block", IntOf(m.block[1]))]

ExtractFlash(s, m) ==
    IF s.raised \/ m.flash = <<>> THEN s
    ELSE [s EXCEPT !.cur = Put(@, "flashloan_provider", m.flash[1])]

ExtractAddresses(s, m) ==
    IF s.raised \/ m.addrs = <<>> THEN s
    ELSE [s EXCEPT !.cur = Put(@, "addresses",
                               (IF Has(@, "addresses") THEN @["addresses"] ELSE <<>>) \o m.addrs)]

\* _extract_fields(line) on the pending record cur: [cur, raised]
ExtractFields(cur, m) ==
    ExtractAddresses(ExtractFlash(ExtractBlock(ExtractNet(ExtractGas(ExtractGross(
        ExtractAmount(ExtractDexes(ExtractPair([cur |-> cur, raised |-> FALSE],
        m), m), m), m), m), m), m), m), m)

required_fields == <<"pair", "buy_dex", "sell_dex", "net_profit", "block">>

\* Mutant: the "Validate profit is positive" test is missing.
ValidateOpportunity_NoProfitTest(opp) ==
    \A i \in 1..Len(required_fields) : Has(opp, required_fields[i])

ValidateOpportunity(opp) ==
    /\ \A i \in 1..Len(required_fields) : Has(opp, required_fields[i])
    /\ ~(opp["net_profit"] <= 0)

Get(d, k, default) == IF Has(d, k) THEN d[k] ELSE default

\* Mutant: a gross profit of zero gives the ratio 0 instead of the default.
EnrichOpportunity_ZeroRatio(opp) ==
    LET ratio == IF ~Has(opp, "gross_profit_usd") THEN <<1, 1>>
                 ELSE IF opp["gross_profit_usd"] > 0
                 THEN Rat(Get(opp, "gas_cost", 0), opp["gross_profit_usd"])
                 ELSE <<0, 1>>
        buy  == Get(opp, "buy_dex", <<>>)
        sell == Get(opp, "sell_dex", <<>>)
        o1 == Put(opp, "gas_ratio", ratio)
        o2 == Put(o1, "is_uniswap_v2", Contains(buy, "UniswapV2") \/ Contains(sell, "UniswapV2"))
        o3 == Put(o2, "is_uniswap_v3", Contains(buy, "UniswapV3") \/ Contains(sell, "UniswapV3"))
        o4 == Put(o3, "is_sushiswap", Contains(buy, "Sushiswap") \/ Contains(sell, "Sushiswap"))
        o5 == Put(o4, "is_cross_dex", buy # sell)
    IN Put(o5, "raw_text", Join(Get(opp, "raw_text", <<>>)))

\* _enrich_opportunity(opp)
EnrichOpportunity(opp) ==
    LET ratio == IF Has(opp, "gross_profit_usd") /\ opp["gross_profit_usd"] > 0
                 THEN Rat(Get(opp, "gas_cost", 0), opp["gross_profit_usd"])
                 ELSE <<1, 1>>
        buy  == Get(opp, "buy_dex", <<>>)
        sell == Get(opp, "sell_dex", <<>>)
        o1 == Put(opp, "gas_ratio", ratio)
        o2 == Put(o1, "is_uniswap_v2", Contains(buy, "UniswapV2") \/ Contains(sell, "UniswapV2"))
        o3 == Put(o2, "is_uniswap_v3", Contains(buy, "UniswapV3") \/ Contains(sell, "UniswapV3"))
        o4 == Put(o3, "is_sushiswap", Contains(buy, "Sushiswap") \/ Contains(sell, "Sushiswap"))
        o5 == Put(o4, "is_cross_dex", buy # sell)
    IN Put(o5, "raw_text", Join(Get(opp, "raw_text", <<>>)))

\* Mutant: the completeness test looks for the key 'block_number' (the name
\* of the database column) and so never finds the block.
IsComplete_WrongKey(cur) == Has(cur, "block_number") /\ Has(cur, "net_profit")

\* The test of parse_line's "Check if opportunity is complete"
IsComplete(cur) == Has(cur, "block") /\ Has(cur, "net_profit")

\* Mutant: the header updates the pending dict in place instead of replacing
\* it, so fields of the previous record survive into the new one.
StartOpportunity_KeepsFields(cur, t) ==
    Put(Put(cur, "timestamp", t), "raw_text", <<>>)

\* Mutant: the new record takes over the raw_text list of the record it
\* replaces.
StartOpportunity_KeepsRawText(cur, t) ==
    [timestamp |-> t, raw_text |-> Get(cur, "raw_text", <<>>)]

\* parse_line's "Start new opportunity" over the pending record cur
StartOpportunity(cur, t) == [timestamp |-> t, raw_text |-> <<>>]

\* What a call leaves behind: the scraper's fields, the records returned,
\* whether it raised, and the emission paths taken.
Outcome(cur, buf, r, ex, trig) ==
    [cur |-> cur, buf |-> buf, ret |-> r, raised |-> ex, trigger |-> trig]

\* Mutant: the pending record is cleared only when it passes validation, so
\* a complete record that fails it stays pending.
ParseLine_KeepsInvalid(cur, buf, rawline, t) ==
    LET line == Strip(rawline) IN
    IF line = <<>> THEN Outcome(cur, buf, <<>>, FALSE, {})
    ELSE
      LET m    == line[1]
          buf1 == Append(buf, line)
      IN
      IF m.hdr /\ Truthy(cur) /\ ValidateOpportunity(cur)
      THEN Outcome(EmptyDict, buf1, <<EnrichOpportunity(cur)>>, FALSE, {"header"})
      ELSE
        LET cur1 == IF m.hdr THEN StartOpportunity(cur, t) ELSE cur
            s    == IF Truthy(cur1)
                    THEN ExtractFields([cur1 EXCEPT !["raw_text"] = Append(@, line)], m)
                    ELSE [cur |-> cur1, raised |-> FALSE]
        IN
        IF s.raised THEN Outcome(s.cur, buf1, <<>>, TRUE, {})
        ELSE IF IsComplete(s.cur) /\ ValidateOpportunity(s.cur)
        THEN Outcome(EmptyDict, buf1, <<EnrichOpportunity(s.cur)>>, FALSE, {"fields"})
        ELSE Outcome(s.cur, buf1, <<>>, FALSE, {})

\* parse_line(rawline) at time t, from scraper state (cur, buf)
ParseLine(cur, buf, rawline, t) ==
    LET line == Strip(rawline) IN
    IF line = <<>> THEN Outcome(cur, buf, <<>>, FALSE, {})
    ELSE
      LET m    == line[1]
          buf1 == Append(buf, line)
      IN
      IF m.hdr /\ Truthy(cur) /\ ValidateOpportunity(cur)
      THEN Outcome(EmptyDict, buf1, <<EnrichOpportunity(cur)>>, FALSE, {"header"})
      ELSE
        LET cur1 == IF m.hdr THEN StartOpportunity(cur, t) ELSE cur
            s    == IF Truthy(cur1)
                    THEN ExtractFields([cur1 EXCEPT !["raw_text"] = Append(@, line)], m)
                    ELSE [cur |-> cur1, raised |-> FALSE]
        IN
        IF s.raised THEN Outcome(s.cur, buf1, <<>>, TRUE, {})
        ELSE IF IsComplete(s.cur)
        THEN IF ValidateOpportunity(s.cur)
             THEN Outcome(EmptyDict, buf1, <<EnrichOpportunity(s.cur)>>, FALSE, {"fields"})
             ELSE Outcome(EmptyDict, buf1, <<>>, FALSE, {})
        ELSE Outcome(s.cur, buf1, <<>>, FALSE, {})

\* The loop of parse_batch over the remaining lines; acc is `opportunities`.
\* An exception in parse_line leaves the loop (and the method) at once.
RECURSIVE BatchLoop(_, _, _, _, _, _)
BatchLoop(cur, buf, lines, acc, trig, t) ==
    IF lines = <<>> THEN Outcome(cur, buf, acc, FALSE, trig)
    ELSE LET Rest(o) ==
                 IF o.raised THEN Outcome(o.cur, o.buf, <<>>, TRUE, trig)
                 ELSE BatchLoop(o.cur, o.buf, Tail(lines), acc \o o.ret,
                                trig \cup o.trigger, t)
         IN CHOOSE r \in {Rest(o) : o \in {ParseLine(cur, buf, Head(lines), t)}} : TRUE

\* parse_batch(text) at time t
ParseBatch(cur, buf, text, t) ==
    LET o == BatchLoop(cur, buf, Split(text), <<>>, {}, t) IN
    IF o.raised THEN o
    ELSE IF Truthy(o.cur) /\ ValidateOpportunity(o.cur)
    THEN Outcome(EmptyDict, o.buf, Append(o.ret, EnrichOpportunity(o.cur)), FALSE,
                 o.trigger \cup {"flush"})
    ELSE o

----------------------------------------------------------------------------
(* The input alphabet of the scraper specifications *)

Noise == Txt(FALSE, <<>>, <<>>, <<>>, <<>>, <<>>, <<>>, <<>>, <<>>, <<>>)

\* A run of characters in which exactly the patterns named in f match
With(f) == [k \in DOMAIN Noise |-> IF k \in DOMAIN f THEN f[k] ELSE Noise[k]]

FooBar  == <<"FOO", "BAR">>
Venues  == << <<"UniswapV2">>, <<"Sushiswap">> >>

L_blank == <<>>
L_noise == <<Noise>>
L_H     == <<With([hdr |-> TRUE])>>
L_HD    == <<With([hdr |-> TRUE, pair |-> FooBar, dexes |-> Venues])>>
L_PD    == <<With([pair |-> FooBar, dexes |-> Venues])>>
L_N     == <<With([net |-> << <<"1", "2", "0", ".", "0">> >>])>>
L_N0    == <<With([net |-> << <<"0", ".", "0">> >>])>>
L_Nbad  == <<With([net |-> << <<"1", ".", "2", ".", "3">> >>])>>
L_B     == <<With([block |-> << <<"1", "2", "3", "4", "5">> >>])>>

Lines == {L_blank, L_noise, L_H, L_HD, L_PD, L_N, L_N0, L_Nbad, L_B}

RECURSIVE SeqsUpTo(_, _)
SeqsUpTo(S, n) ==
    IF n = 0 THEN {<<>>}
    ELSE LET shorter == SeqsUpTo(S, n - 1)
         IN shorter \cup {Append(s, x) : s \in {q \in shorter : Len(q) = n - 1}, x \in S}

Batches == SeqsUpTo(Lines, MaxBatch) \ {<<>>}

----------------------------------------------------------------------------
(* Spec: one TerminalScraper driven through parse_line and parse_batch *)

ScraperInit ==
    /\ buffer = <<>>
    /\ current_opportunity = EmptyDict
    /\ now = 0
    /\ fed = <<>>
    /\ emitted = <<>>
    /\ ret = <<>>
    /\ raised = FALSE
    /\ trigger = {}
    /\ api = "none"

\* MLArbitrageSystem.__init__ with no model file on disk, before start()
SystemInit ==
    /\ is_running = FALSE
    /\ rust_process = "None"
    /\ opportunities_queue = <<>>
    /\ cache = EmptyDict
    /\ isolation_forest = FALSE
    /\ known_honeypots = {}
    /\ main = "init"
    /\ producer = "none"
    /\ consumer = "none"
    /\ opportunity = <<>>
    /\ stored = <<>>
    /\ predicted = <<>>
    /\ dequeued = <<>>
    /\ reads = 0

\* HoneypotDetector.__init__ and ExecutionPredictor.__init__: the fields
\* that only a client of the scorers fills; no scorer method called yet
ScorerInit ==
    /\ known_safe = {}
    /\ execution_history = <<>>
    /\ success_rates = <<>>
    /\ executions = <<>>
    /\ call = <<>>
    /\ before = <<>>

Init ==
    /\ ScraperInit
    /\ SystemInit
    /\ ScorerInit
    /\ block = <<>>
    /\ calls = <<>>

\* The scraper's fields and the call's observables after outcome o
Apply(o, t, name, lines) ==
    /\ now' = t
    /\ buffer' = o.buf
    /\ current_opportunity' = o.cur
    /\ ret' = o.ret
    /\ raised' = o.raised
    /\ trigger' = o.trigger
    /\ api' = name
    /\ fed' = fed \o lines
    /\ emitted' = emitted \o o.ret
    /\ UNCHANGED <<pvars, cvars>>

\* A caller invokes parse_line(l)
FeedLine(l) ==
    /\ Len(fed) < MaxLines
    /\ \E t \in now..MaxClock :
         Apply(ParseLine(current_opportunity, buffer, l, t), t, "line", <<l>>)
    /\ UNCHANGED <<block, calls>>

\* A caller invokes parse_batch('\n'.join(ls))
FeedBatch(ls) ==
    /\ Len(fed) + Len(ls) <= MaxLines
    /\ \E t \in now..MaxClock :
         Apply(ParseBatch(current_opportunity, buffer, Join(ls), t), t, "batch", ls)
    /\ UNCHANGED <<block, calls>>

Next ==
    \/ \E l \in Lines : FeedLine(l)
    \/ \E ls \in Batches : FeedBatch(ls)

Spec == Init /\ [][Next]_vars

----------------------------------------------------------------------------
(* Properties of the scraper (Spec) *)

\* C1 (as claimed): every parse_line call, on every line sequence, returns
\* normally -- nothing or one record -- and never raises.
C1_ParseLineNeverRaises ==
    api = "line" => (~raised /\ Len(ret) <= 1)

\* A record as the claims require it: the five required fields are present
\* and net_profit is positive.
WellFormed(rec) ==
    /\ {"pair", "buy_dex", "sell_dex", "net_profit", "block"} \subseteq DOMAIN rec
    /\ rec["net_profit"] > 0

\* C2: every record returned by parse_line or parse_batch, after any sequence
\* of calls, has pair, buy_dex, sell_dex, net_profit and block, and
\* net_profit > 0.
C2_EmittedRecordsComplete ==
    /\ \A i \in 1..Len(ret) : WellFormed(ret[i])
    /\ \A i \in 1..Len(emitted) : WellFormed(emitted[i])

\* C2 witness: a call returned a record, and it is well formed.
C2_Witness ==
    /\ ret # <<>>
    /\ WellFormed(ret[1])

\* Some continuation of at most k lines through parse_line, from scraper
\* state (cur, buf), returns a record by the emission path `path`.
RECURSIVE CanEmit(_, _, _, _)
CanEmit(path, cur, buf, k) ==
    /\ k > 0
    /\ \E l \in Lines :
         LET o == ParseLine(cur, buf, l, 0)
         IN path \in o.trigger \/ CanEmit(path, o.cur, o.buf, k - 1)

\* C3 (as claimed): both completion triggers are live: some line sequence
\* makes parse_line return the previously pending record on a header line,
\* and some line sequence makes it return a record on the line that supplies
\* the second of {block, net_profit}.
C3_BothTriggersLive ==
    fed = <<>> =>
        /\ CanEmit("fields", current_opportunity, buffer, MaxLines)
        /\ CanEmit("header", current_opportunity, buffer, MaxLines)

\* C3 (amended): only the field trigger emits. No call returns a record
\* through the header branch, and every record parse_line returns is returned
\* by the completeness check at the end of the call.
C3_OnlyFieldTriggerEmits ==
    /\ "header" \notin trigger
    /\ (api = "line" /\ ret # <<>>) => trigger = {"fields"}

\* C3 witness: parse_line returned a record on the line that supplied the
\* second of {block, net_profit}, and a later header line found nothing to
\* emit.
C3_Witness ==
    /\ emitted # <<>>
    /\ api = "line"
    /\ fed[Len(fed)] = L_H
    /\ ret = <<>>

StripTs(d) == IF Has(d, "timestamp") THEN Drop(d, "timestamp") ELSE d

StripAll(recs) == [i \in 1..Len(recs) |-> StripTs(recs[i])]

\* Feeding every line of ls through parse_line alone, a fresh scraper first:
\* the records returned and the pending record left.
RECURSIVE LineByLine(_, _, _, _)
LineByLine(cur, buf, ls, acc) ==
    IF ls = <<>> THEN [cur |-> cur, emitted |-> acc]
    ELSE LET o == ParseLine(cur, buf, Head(ls), 0)
         IN LineByLine(o.cur, o.buf, Tail(ls), acc \o o.ret)

\* C4 (as claimed): however the lines were cut into parse_line and
\* parse_batch calls, the records returned so far and the pending record are
\* those of feeding every line through parse_line alone (timestamps apart).
C4_InterleavingEquivalent ==
    LET ref == LineByLine(EmptyDict, <<>>, fed, <<>>)
    IN /\ StripAll(emitted) = StripAll(ref.emitted)
       /\ StripTs(current_opportunity) = StripTs(ref.cur)

----------------------------------------------------------------------------
(* IdemSpec: one scraper, brought into some state through parse_line, is   *)
(* then given the same text block through parse_batch twice.               *)

MaxPrefix == 2
MaxTail == 3

PrefixLines == {L_HD, L_N, L_B}
TailLines == {L_H, L_PD, L_N, L_N0, L_Nbad, L_B}

IdemInit ==
    /\ ScraperInit
    /\ SystemInit
    /\ ScorerInit
    /\ block = <<>>
    /\ calls = <<>>

\* Before the block: parse_line(l)
IdemPrefix(l) ==
    /\ block = <<>>
    /\ Len(fed) < MaxPrefix
    /\ Apply(ParseLine(current_opportunity, buffer, l, now), now, "line", <<l>>)
    /\ UNCHANGED <<block, calls>>

\* The block under test is a header line ...
BlockStart(h) ==
    /\ block = <<>>
    /\ block' = <<h>>
    /\ UNCHANGED <<buffer, current_opportunity, now, fed, emitted, ret, raised,
                   trigger, api, calls, pvars, cvars>>

\* ... then up to MaxTail further lines
BlockExtend(l) ==
    /\ block # <<>>
    /\ calls = <<>>
    /\ Len(block) <= MaxTail
    /\ block' = Append(block, l)
    /\ UNCHANGED <<buffer, current_opportunity, now, fed, emitted, ret, raised,
                   trigger, api, calls, pvars, cvars>>

\* parse_batch(text) on the block, the record of the call appended to calls
IdemCall ==
    /\ block # <<>>
    /\ Len(calls) < 2
    /\ \E t \in now..MaxClock :
          LET o == ParseBatch(current_opportunity, buffer, Join(block), t)
          IN /\ Apply(o, t, "batch", block)
             /\ calls' = Append(calls, [ret |-> o.ret, raised |-> o.raised])
    /\ UNCHANGED block

IdemNext ==
    \/ \E l \in PrefixLines : IdemPrefix(l)
    \/ \E h \in {L_H, L_HD} : BlockStart(h)
    \/ \E l \in TailLines : BlockExtend(l)
    \/ IdemCall

IdemSpec == IdemInit /\ [][IdemNext]_vars

\* The numeric tokens a run of characters carries for float()
FloatTokens(m) ==
    {x[1] : x \in {m.amount, m.gross, m.gas, m.net} \ {<<>>}}

\* Block b supplies field f (a pattern name) on one of its lines 1..k
Supplies(b, f, k) == \E i \in 1..k : b[i][1][f] # <<>>

\* A completed text block, as C5 describes it: a header followed by lines
\* (none of them a header, all numeric tokens well formed) that supply all
\* required fields, with net_profit > 0.
CompletedBlock(b) ==
    /\ b[1][1].hdr
    /\ \A i \in 2..Len(b) : ~b[i][1].hdr
    /\ \A i \in 1..Len(b) : \A tok \in FloatTokens(b[i][1]) : FloatOk(tok)
    /\ \A f \in {"pair", "dexes", "net", "block"} : Supplies(b, f, Len(b))
    /\ \A i \in 1..Len(b) : b[i][1].net # <<>> => FloatOf(b[i][1].net[1]) > 0

\* The line of b that supplies the second of {block, net_profit}
CompletingLine(b) ==
    CHOOSE k \in 1..Len(b) :
        /\ Supplies(b, "net", k) /\ Supplies(b, "block", k)
        /\ ~(Supplies(b, "net", k - 1) /\ Supplies(b, "block", k - 1))

\* Pair and venues are supplied no later than the second of {block, net_profit}
DescribedInTime(b) ==
    Supplies(b, "pair", CompletingLine(b)) /\ Supplies(b, "dexes", CompletingLine(b))

\* C5 (as claimed): feeding the same completed text block through
\* parse_batch twice yields one record per call, the two structurally
\* identical except for timestamp.
C5_OneRecordPerCall ==
    (Len(calls) = 2 /\ CompletedBlock(block)) =>
        /\ \A i \in 1..2 : ~calls[i].raised /\ Len(calls[i].ret) = 1
        /\ StripAll(calls[1].ret) = StripAll(calls[2].ret)

\* C5 (amended): the two calls on the same header-first block have the same
\* outcome -- both raise, or both return lists that are structurally
\* identical except for timestamp (no deduplication, no state carried from
\* the first call into the second).  For a completed block each call returns
\* exactly one record when pair and venues are supplied no later than the
\* second of {block, net_profit}, and no record otherwise.
C5_SameOutcomeTwice ==
    Len(calls) = 2 =>
        /\ calls[1].raised = calls[2].raised
        /\ StripAll(calls[1].ret) = StripAll(calls[2].ret)
        /\ CompletedBlock(block) =>
             \A i \in 1..2 :
                /\ ~calls[i].raised
                /\ Len(calls[i].ret) = IF DescribedInTime(block) THEN 1 ELSE 0

\* C5 witness: a completed block was fed twice at different times to a
\* scraper that held a pending record, and each call returned one record.
C5_Witness ==
    /\ Len(calls) = 2
    /\ CompletedBlock(block)
    /\ Len(calls[1].ret) = 1 /\ Len(calls[2].ret) = 1
    /\ calls[1].ret[1]["timestamp"] # calls[2].ret[1]["timestamp"]
    /\ Len(fed) > 2 * Len(block)

----------------------------------------------------------------------------
(* Arithmetic on the rationals <<n, d>>, for the float arithmetic of the   *)
(* scorers: exact where Python rounds to the nearest double.               *)

Abs(n) == IF n < 0 THEN -n ELSE n

Max(a, b) == IF a >= b THEN a ELSE b

Min(a, b) == IF a <= b THEN a ELSE b

RatMul(a, b) ==
    LET g1 == Gcd(Abs(a[1]), b[2])
        g2 == Gcd(Abs(b[1]), a[2])
    IN Rat((a[1] \div g1) * (b[1] \div g2), (a[2] \div g2) * (b[2] \div g1))

RatAdd(a, b) ==
    LET g == Gcd(a[2], b[2])
    IN Rat(a[1] * (b[2] \div g) + b[1] * (a[2] \div g), (a[2] \div g) * b[2])

RatLess(a, b) == a[1] * b[2] < b[1] * a[2]

\* x thousandths as a rational
Milli(x) == Rat(x, 1000)

----------------------------------------------------------------------------
(* PairResearcher.  Money is in whole dollars, ages in days, taxes in      *)
(* percent, risks in thousandths.  A dict whose iteration order matters    *)
(* (research['tokens']) is the sequence of its items, in insertion order.  *)

\* dict.update
Update(d, e) == [k \in (DOMAIN d) \cup (DOMAIN e) |-> IF k \in DOMAIN e THEN e[k] ELSE d[k]]

\* _get_contract_info(address) when Etherscan answers as es; c is self.cache.
\* The result is cached whether or not the requests succeeded; an entry
\* lives for an hour, longer than the runs considered here.
GetContractInfo(address, es, c) ==
    IF Has(c, address) THEN [data |-> c[address], cache |-> c]
    ELSE LET data == IF es.ok
                     THEN [contract_verified |-> es.verified,
                           is_open_source |-> es.verified,
                           age_days |-> es.age_days]
                     ELSE [contract_verified |-> FALSE, is_open_source |-> FALSE,
                           age_days |-> 0]
         IN [data |-> data, cache |-> Put(c, address, data)]

\* _get_market_data(symbol, address) when DexScreener answers as ds
GetMarketData(ds) ==
    IF ds.ok
    THEN [market_cap |-> ds.fdv, liquidity_usd |-> ds.liquidity,
          volume_24h |-> ds.volume, price_change_24h |-> ds.change, holder_count |-> 0]
    ELSE [market_cap |-> 0, liquidity_usd |-> 0, volume_24h |-> 0,
          price_change_24h |-> 0, holder_count |-> 0]

\* _check_honeypot(address) when honeypot.is answers as hp
CheckHoneypotApi(hp) ==
    IF hp.ok
    THEN [is_honeypot |-> hp.honeypot, tax_buy |-> hp.buy_tax, tax_sell |-> hp.sell_tax,
          can_take_back_ownership |-> hp.can_take_back_ownership]
    ELSE [is_honeypot |-> TRUE, tax_buy |-> 0, tax_sell |-> 0,
          can_take_back_ownership |-> FALSE]

TokenDefaults(symbol, address) ==
    [symbol |-> symbol, address |-> address, contract_verified |-> FALSE,
     age_days |-> 0, holder_count |-> 0, market_cap |-> 0, liquidity_usd |-> 0,
     volume_24h |-> 0, price_change_24h |-> 0, is_honeypot |-> FALSE, tax_buy |-> 0,
     tax_sell |-> 0, can_take_back_ownership |-> FALSE, is_open_source |-> FALSE]

\* _research_token(symbol, address) in the world w: [data, cache]
ResearchToken(symbol, address, w, c) ==
    LET d0 == TokenDefaults(symbol, address) IN
    IF address = "None"
    THEN [data |-> Update(d0, GetMarketData(w.dexscreener)), cache |-> c]
    ELSE LET ci == GetContractInfo(address, w.etherscan, c)
         IN [data  |-> Update(Update(Update(d0, ci.data), GetMarketData(w.dexscreener)),
                              CheckHoneypotApi(w.honeypot)),
             cache |-> ci.cache]

\* The items of research['tokens'] as a sequence; their values
Values(items) == [i \in 1..Len(items) |-> items[i].value]

\* _analyze_risks: the loop that computes honeypot_risk, from item i on
RECURSIVE HoneypotRiskLoop(_, _, _)
HoneypotRiskLoop(vals, i, r) ==
    IF i > Len(vals) THEN r
    ELSE IF vals[i].is_honeypot THEN 1000
    ELSE HoneypotRiskLoop(vals, i + 1,
            Max(Max(r, IF vals[i].tax_sell > 10 THEN 800 ELSE 0),
                IF vals[i].can_take_back_ownership THEN 600 ELSE 0))

\* _analyze_risks(opportunity, research), on the values of research['tokens']
AnalyzeRisks(vals) ==
    LET T == 1..Len(vals)
        honeypot  == HoneypotRiskLoop(vals, 1, 0)
        liquidity == IF \E i \in T : vals[i].liquidity_usd < 50000 THEN 800
                     ELSE IF \E i \in T : vals[i].liquidity_usd < 100000 THEN 500
                     ELSE 0
        contract  == IF \E i \in T : ~vals[i].contract_verified THEN 700
                     ELSE IF \E i \in T : vals[i].age_days < 7 THEN 600
                     ELSE IF \E i \in T : vals[i].holder_count < 100 THEN 500
                     ELSE 0
    IN [honeypot_risk |-> honeypot, liquidity_risk |-> liquidity,
        volatility_risk |-> 0, contract_risk |-> contract,
        overall_risk |-> Max(Max(honeypot, (liquidity * 8) \div 10), (contract * 7) \div 10)]

\* addresses[i] if i < len(addresses) else None   (i counted from 1 here)
AddressAt(opp, i) ==
    LET addresses == Get(opp, "addresses", <<>>)
    IN IF i <= Len(addresses) THEN addresses[i] ELSE "None"

\* Every service answers in the world w
AllOk(w) == w.etherscan.ok /\ w.dexscreener.ok /\ w.honeypot.ok

\* The body of research_pair(opportunity) at time t, in the world w, from
\* cache c: [raised, research, cache]
ResearchResult(opp, w, c, t, ex) ==
    LET r0 == ResearchToken(opp["token0"], AddressAt(opp, 1), w, c)
        r1 == ResearchToken(opp["token1"], AddressAt(opp, 2), w, r0.cache)
        tokens == IF opp["token0"] = opp["token1"]
                  THEN << [key |-> opp["token1"], value |-> r1.data] >>
                  ELSE << [key |-> opp["token0"], value |-> r0.data],
                          [key |-> opp["token1"], value |-> r1.data] >>
    IN [raised   |-> ex,
        research |-> [timestamp |-> t, pair |-> opp["pair"], tokens |-> tokens,
                      liquidity |-> [total_liquidity |-> 0, buy_dex_liquidity |-> 0,
                                     sell_dex_liquidity |-> 0],
                      risk_factors |-> AnalyzeRisks(Values(tokens))],
        cache    |-> r1.cache]

\* Mutant: a failed request is not caught by the helpers and leaves
\* research_pair as an exception.
ResearchPair_Propagates(opp, w, c, t) == ResearchResult(opp, w, c, t, ~AllOk(w))

\* research_pair(opportunity).  Failed requests are caught inside the helpers
\* (and again by _research_token and by gather(return_exceptions=True)),
\* which answer with their defaults; no statement of research_pair raises.
ResearchPair(opp, w, c, t) == ResearchResult(opp, w, c, t, FALSE)

----------------------------------------------------------------------------
(* HoneypotDetector.  Risks are in thousandths; a sum of three or six      *)
(* 0.3 steps, which Python rounds just below 0.9 or 1.8, is held as the    *)
(* exact value (no comparison of the method falls between the two).  A     *)
(* token_data, opportunity or research dict may lack any of its keys: every*)
(* read is a .get with the default the source gives.                       *)

\* The names of self.honeypot_patterns that hold of token_data x
honeypot_patterns(x) ==
    {n \in {"high_tax", "ownership_risk", "no_liquidity", "new_contract",
            "few_holders", "unverified"} :
        \/ n = "high_tax" /\ Get(x, "tax_sell", 0) > 50
        \/ n = "ownership_risk" /\ Get(x, "can_take_back_ownership", FALSE)
        \/ n = "no_liquidity" /\ Get(x, "liquidity_usd", 0) < 1000
        \/ n = "new_contract" /\ Get(x, "age_days", 365) < 1
        \/ n = "few_holders" /\ Get(x, "holder_count", 1000) < 10
        \/ n = "unverified" /\ ~Get(x, "contract_verified", FALSE)}

\* _evaluate_token_risk: the loop over the patterns, risk += 0.3 for each
\* that holds
PatternRisk(x) == 300 * Cardinality(honeypot_patterns(x))

\* Mutant: a sell tax above 25 raises the risk to 0.3 only.
SellTaxRisk_Dip(sell_tax, risk) ==
    IF sell_tax > 50 THEN Max(risk, 950)
    ELSE IF sell_tax > 25 THEN Max(risk, 300)
    ELSE IF sell_tax > 10 THEN Max(risk, 400)
    ELSE risk

\* _evaluate_token_risk: the if/elif chain on sell_tax
SellTaxRisk(sell_tax, risk) ==
    IF sell_tax > 50 THEN Max(risk, 950)
    ELSE IF sell_tax > 25 THEN Max(risk, 700)
    ELSE IF sell_tax > 10 THEN Max(risk, 400)
    ELSE risk

\* Mutant: the safe list is consulted before the list of known honeypots.
KnownAddressRisk_SafeFirst(address, risk, kh, ks) ==
    IF address # "None" /\ address \in ks THEN Min(risk, 200)
    ELSE IF address # "None" /\ address \in kh THEN 1000
    ELSE risk

\* _evaluate_token_risk: the if/elif on the address; kh is
\* self.known_honeypots and ks is self.known_safe
KnownAddressRisk(address, risk, kh, ks) ==
    IF address # "None" /\ address \in kh THEN 1000
    ELSE IF address # "None" /\ address \in ks THEN Min(risk, 200)
    ELSE risk

\* _evaluate_token_risk(token_data), statement by statement
EvaluateTokenRisk(x, kh, ks) ==
    LET r0 == PatternRisk(x)
        r1 == IF Get(x, "is_honeypot", FALSE) THEN Max(r0, 900) ELSE r0
        r2 == SellTaxRisk(Get(x, "tax_sell", 0), r1)
        r3 == IF Get(x, "can_take_back_ownership", FALSE) THEN Max(r2, 800) ELSE r2
        r4 == IF Get(x, "liquidity_usd", 0) < 10000 THEN Max(r3, 600) ELSE r3
        r5 == IF Get(x, "age_days", 0) < 7 THEN Max(r4, 500) ELSE r4
        r6 == IF Get(x, "holder_count", 0) < 50 THEN Max(r5, 600) ELSE r5
        r7 == KnownAddressRisk(Get(x, "address", "None"), r6, kh, ks)
    IN Min(r7, 1000)

\* 'new' in name.lower(), for a venue name given by its pieces
HasNew(name) == \E i \in 1..Len(name) : name[i] \in {"new", "New", "NEW"}

\* _evaluate_pair_risk(opportunity, research); net_profit is in thousandths
EvaluatePairRisk(opp, research) ==
    LET r0  == IF Get(opp, "net_profit", 0) > 1000 * 1000 THEN 300 ELSE 0
        liquidity_data == Get(research, "liquidity", EmptyDict)
        buy == Get(liquidity_data, "buy_dex_liquidity", 1)
        sel == Get(liquidity_data, "sell_dex_liquidity", 1)
        r1  == IF buy > 0 /\ sel > 0 /\ 10 * Min(buy, sel) < Max(buy, sel)
               THEN Max(r0, 500) ELSE r0
    IN IF HasNew(Get(opp, "buy_dex", <<>>)) \/ HasNew(Get(opp, "sell_dex", <<>>))
       THEN Max(r1, 400) ELSE r1

\* _ml_risk_assessment, given what the scaler and the forest answer: ml.ok is
\* FALSE when one of them raises; otherwise ml.prediction is -1 or 1 and
\* ml.score (thousandths) is the value of score_samples.
MlRiskAssessment(ml) ==
    IF ~ml.ok THEN 500
    ELSE LET depth == 1000 - (ml.score + 1000) \div 2
         IN IF ml.prediction = -1 THEN 700 + (depth * 3) \div 10
            ELSE Max(0, (depth * 7) \div 10)

\* Mutant: the risk of the last component instead of the largest.
RECURSIVE MaxOf_Last(_)
MaxOf_Last(xs) == IF Len(xs) = 1 THEN xs[1] ELSE MaxOf_Last(Tail(xs))

\* max(risk_scores) over a non-empty sequence
RECURSIVE MaxOf(_)
MaxOf(xs) == IF Len(xs) = 1 THEN xs[1] ELSE Max(xs[1], MaxOf(Tail(xs)))

\* check_honeypot(opportunity, research) with the model present or not
CheckHoneypot(opp, research, forest, kh, ks, ml) ==
    LET vals == Values(Get(research, "tokens", <<>>))
        token_risks == [i \in 1..Len(vals) |-> EvaluateTokenRisk(vals[i], kh, ks)]
        risk_scores == token_risks \o <<EvaluatePairRisk(opp, research)>>
                       \o (IF forest THEN <<MlRiskAssessment(ml)>> ELSE <<>>)
    IN MaxOf(risk_scores)

----------------------------------------------------------------------------
(* ExecutionPredictor.  Scores are rationals; net_profit and gas_cost are  *)
(* in thousandths of a dollar, gas_ratio is a rational.                    *)

\* self.weights, in insertion order
weights ==
    << <<"profit", <<1, 4>> >>, <<"liquidity", <<1, 5>> >>,
       <<"gas_efficiency", <<3, 20>> >>, <<"token_safety", <<1, 5>> >>,
       <<"market_conditions", <<1, 10>> >>, <<"historical_success", <<1, 10>> >> >>

\* self.network_congestion (0.5), never written
network_congestion == <<1, 2>>

ScoreProfit(opp) ==
    LET net_profit == Get(opp, "net_profit", 0) IN
    IF net_profit <= 0 THEN <<0, 1>>
    ELSE IF net_profit < 10 * 1000 THEN <<1, 5>>
    ELSE IF net_profit < 50 * 1000 THEN <<1, 2>>
    ELSE IF net_profit < 100 * 1000 THEN <<7, 10>>
    ELSE IF net_profit < 500 * 1000 THEN <<17, 20>>
    ELSE IF net_profit > 5000 * 1000 THEN <<1, 2>>
    ELSE <<19, 20>>

ScoreLiquidity(research) ==
    LET vals == Values(Get(research, "tokens", <<>>))
        liqs == {Get(vals[i], "liquidity_usd", 0) : i \in 1..Len(vals)}
    IN IF liqs = {} THEN <<0, 1>>
       ELSE LET min_liquidity == CHOOSE x \in liqs : \A y \in liqs : x <= y
            IN IF min_liquidity = 0 THEN <<0, 1>>
               ELSE IF min_liquidity < 10000 THEN <<1, 10>>
               ELSE IF min_liquidity < 50000 THEN <<3, 10>>
               ELSE IF min_liquidity < 100000 THEN <<1, 2>>
               ELSE IF min_liquidity < 500000 THEN <<7, 10>>
               ELSE IF min_liquidity < 1000000 THEN <<17, 20>>
               ELSE <<1, 1>>

ScoreGasEfficiency(opp) ==
    LET gas_ratio == Get(opp, "gas_ratio", <<1, 1>>) IN
    IF ~RatLess(gas_ratio, <<4, 5>>) THEN <<0, 1>>
    ELSE IF ~RatLess(gas_ratio, <<1, 2>>) THEN <<3, 10>>
    ELSE IF ~RatLess(gas_ratio, <<3, 10>>) THEN <<1, 2>>
    ELSE IF ~RatLess(gas_ratio, <<1, 5>>) THEN <<7, 10>>
    ELSE IF ~RatLess(gas_ratio, <<1, 10>>) THEN <<17, 20>>
    ELSE <<1, 1>>

\* The factors _score_token_safety multiplies in for one token
TokenSafety(x) ==
    LET age_days == Get(x, "age_days", 0)
        holder_count == Get(x, "holder_count", 0)
        sell_tax == Get(x, "tax_sell", 0)
        verified == IF ~Get(x, "contract_verified", FALSE) THEN <<7, 10>> ELSE <<1, 1>>
        age      == IF age_days < 7 THEN <<1, 2>>
                    ELSE IF age_days < 30 THEN <<7, 10>>
                    ELSE IF age_days < 90 THEN <<17, 20>>
                    ELSE <<1, 1>>
        holders  == IF holder_count < 100 THEN <<3, 5>>
                    ELSE IF holder_count < 500 THEN <<4, 5>>
                    ELSE <<1, 1>>
        tax      == IF sell_tax > 10 THEN <<3, 10>>
                    ELSE IF sell_tax > 5 THEN <<3, 5>>
                    ELSE IF sell_tax > 2 THEN <<4, 5>>
                    ELSE <<1, 1>>
    IN RatMul(RatMul(verified, age), RatMul(holders, tax))

RECURSIVE SafetyFrom(_, _)
SafetyFrom(vals, i) ==
    IF i > Len(vals) THEN <<1, 1>>
    ELSE RatMul(TokenSafety(vals[i]), SafetyFrom(vals, i + 1))

ScoreTokenSafety(research) == SafetyFrom(Values(Get(research, "tokens", <<>>)), 1)

\* datetime.now().hour and datetime.now().weekday() at clock value t: the
\* clock starts on a Wednesday afternoon and arrives at a Saturday night.
Hour(t) == IF t = 0 THEN 15 ELSE IF t = 1 THEN 3 ELSE 10

Weekday(t) == IF t = 0 THEN 2 ELSE IF t = 1 THEN 5 ELSE 6

ScoreMarketConditions(opp, t) ==
    LET s0 == <<1, 2>>
        s1 == IF Hour(t) >= 14 /\ Hour(t) <= 18 THEN RatMul(s0, <<4, 5>>)
              ELSE IF Hour(t) >= 2 /\ Hour(t) <= 6 THEN RatMul(s0, <<6, 5>>)
              ELSE s0
        s2 == IF Weekday(t) \in {5, 6} THEN RatMul(s1, <<11, 10>>) ELSE s1
        s3 == RatMul(s2, RatAdd(<<3, 2>>, <<-network_congestion[1], network_congestion[2]>>))
        gas_cost == Get(opp, "gas_cost", 0)
        s4 == IF gas_cost > 100 * 1000 THEN RatMul(s3, <<7, 10>>)
              ELSE IF gas_cost > 50 * 1000 THEN RatMul(s3, <<17, 20>>)
              ELSE s3
    IN IF RatLess(<<1, 1>>, s4) THEN <<1, 1>> ELSE s4

\* f"{pair}_{buy_dex}_{sell_dex}", as the sequence of its pieces
TradeKey(opp) ==
    Get(opp, "pair", <<>>) \o <<"_">> \o Get(opp, "buy_dex", <<>>) \o <<"_">>
        \o Get(opp, "sell_dex", <<>>)

\* a in b, for strings given by their pieces
IsIn(a, b) ==
    \E i \in 0..(Len(b) - Len(a)) : \A j \in 1..Len(a) : b[i + j] = a[j]

\* The loop of _score_historical_success over self.success_rates.items()
RECURSIVE SimilarFrom(_, _, _, _)
SimilarFrom(pair, rates, i, best) ==
    IF i > Len(rates) THEN best
    ELSE LET scaled == RatMul(rates[i].value, <<4, 5>>)
         IN SimilarFrom(pair, rates, i + 1,
                        IF IsIn(pair, rates[i].key) /\ RatLess(best, scaled)
                        THEN scaled ELSE best)

\* _score_historical_success; rates is self.success_rates, as its items
ScoreHistoricalSuccess(opp, rates) ==
    LET exact == {i \in 1..Len(rates) : rates[i].key = TradeKey(opp)}
    IN IF exact # {} THEN rates[CHOOSE i \in exact : TRUE].value
       ELSE SimilarFrom(Get(opp, "pair", <<>>), rates, 1, <<1, 2>>)

ApplyPenalties(base_score, opp, research) ==
    LET vals == Values(Get(research, "tokens", <<>>))
        T    == 1..Len(vals)
        honeypot_risk == Get(Get(research, "risk_factors", EmptyDict), "honeypot_risk", 0)
        s1 == IF honeypot_risk > 500 THEN RatMul(base_score, Milli(1000 - honeypot_risk))
              ELSE base_score
        s2 == IF \E i \in T : Get(vals[i], "age_days", 365) < 1
              THEN RatMul(s1, <<3, 10>>) ELSE s1
        s3 == IF Get(opp, "net_profit", 0) > 10000 * 1000 THEN RatMul(s2, <<1, 5>>) ELSE s2
    IN IF \E i \in T : Get(vals[i], "volume_24h", 0) < 1000 THEN RatMul(s3, <<1, 2>>) ELSE s3

\* The score predict_viability computes for a factor of self.weights
FactorScore(factor, opp, research, t, rates) ==
    CASE factor = "profit" -> ScoreProfit(opp)
      [] factor = "liquidity" -> ScoreLiquidity(research)
      [] factor = "gas_efficiency" -> ScoreGasEfficiency(opp)
      [] factor = "token_safety" -> ScoreTokenSafety(research)
      [] factor = "market_conditions" -> ScoreMarketConditions(opp, t)
      [] factor = "historical_success" -> ScoreHistoricalSuccess(opp, rates)

RECURSIVE WeightedFrom(_, _, _, _, _)
WeightedFrom(i, opp, research, t, rates) ==
    IF i > Len(weights) THEN <<0, 1>>
    ELSE RatAdd(RatMul(FactorScore(weights[i][1], opp, research, t, rates), weights[i][2]),
                WeightedFrom(i + 1, opp, research, t, rates))

\* Mutant: the score is cut off at 1 only.
Clamp_Above(viability) == IF RatLess(<<1, 1>>, viability) THEN <<1, 1>> ELSE viability

\* min(max(viability, 0), 1)
Clamp(viability) ==
    IF RatLess(viability, <<0, 1>>) THEN <<0, 1>>
    ELSE IF RatLess(<<1, 1>>, viability) THEN <<1, 1>>
    ELSE viability

\* predict_viability(opportunity, research) at clock value t
PredictViability(opp, research, t, rates) ==
    Clamp(ApplyPenalties(WeightedFrom(1, opp, research, t, rates), opp, research))

\* d[k] = v on a dict held as the sequence of its items
PutItem(items, k, v) ==
    IF \E i \in 1..Len(items) : items[i].key = k
    THEN [i \in 1..Len(items) |-> IF items[i].key = k THEN [key |-> k, value |-> v]
                                                     ELSE items[i]]
    ELSE Append(items, [key |-> k, value |-> v])

\* d[k] on a dict held as the sequence of its items
ItemAt(items, k) == items[CHOOSE i \in 1..Len(items) : items[i].key = k].value

\* Mutant: the entry of a known key is started afresh.
UpdateExecutionResult_Forgets(opp, success, history, rates) ==
    LET trade_key == TradeKey(opp)
        new == [attempts |-> 1, successes |-> (IF success THEN 1 ELSE 0)]
    IN [history |-> PutItem(history, trade_key, new),
        rates |-> PutItem(rates, trade_key, Rat(new.successes, new.attempts))]

\* update_execution_result(opportunity, success, actual_profit) on the
\* history and the rates: [history, rates].  The profit sums it also keeps
\* are read by no scorer and are left out.
UpdateExecutionResult(opp, success, history, rates) ==
    LET trade_key == TradeKey(opp)
        known == \E i \in 1..Len(history) : history[i].key = trade_key
        old == IF known THEN ItemAt(history, trade_key)
               ELSE [attempts |-> 0, successes |-> 0]
        new == [attempts |-> old.attempts + 1,
                successes |-> old.successes + (IF success THEN 1 ELSE 0)]
    IN [history |-> PutItem(history, trade_key, new),
        rates |-> PutItem(rates, trade_key, Rat(new.successes, new.attempts))]

\* get_execution_recommendation(viability): (execute, tier)
GetExecutionRecommendation(viability) ==
    IF ~RatLess(viability, <<4, 5>>) THEN <<TRUE, "STRONG BUY">>
    ELSE IF ~RatLess(viability, <<3, 5>>) THEN <<TRUE, "EXECUTE">>
    ELSE IF ~RatLess(viability, <<2, 5>>) THEN <<FALSE, "RISKY">>
    ELSE IF ~RatLess(viability, <<1, 5>>) THEN <<FALSE, "AVOID">>
    ELSE <<FALSE, "SKIP">>

----------------------------------------------------------------------------
(* PipelineSpec: MLArbitrageSystem from main() on.  The scanner process,   *)
(* the web services and the anomaly model are the environment.             *)

MaxReads == 2

\* The scanner prints a whole opportunity on one line
L_R1 ==
    <<With([hdr |-> TRUE, pair |-> FooBar, dexes |-> Venues,
            gross |-> << <<"1", "5", "0", ".", "0">>, <<"1">> >>,
            gas |-> << <<"1", "5", ".", "0">> >>,
            net |-> << <<"1", "3", "5", ".", "0">> >>,
            block |-> << <<"1", "2", "3", "4", "5">> >>,
            addrs |-> <<"0xA", "0xB">>])>>

\* ... or without gross profit, gas cost and addresses
L_R2 ==
    <<With([hdr |-> TRUE, pair |-> FooBar, dexes |-> Venues,
            net |-> << <<"8", ".", "0">> >>,
            block |-> << <<"1", "2", "3", "4", "6">> >>])>>

\* ... or with a malformed net profit
L_R3 == <<With([hdr |-> TRUE, net |-> << <<"1", ".", "2", ".", "3">> >>])>>

\* readline() returns one of these lines, or '' at end of file
EOF == <<>>
Stdout == {L_R1, L_R2, L_R3, EOF}

Unreachable == [ok |-> FALSE]
Etherscan == [ok |-> TRUE, verified |-> TRUE, age_days |-> 400]
DexScreener == [ok |-> TRUE, fdv |-> 5000000, liquidity |-> 2000000,
                volume |-> 50000, change |-> 1]
HoneypotIs(tax, own) == [ok |-> TRUE, honeypot |-> FALSE, buy_tax |-> 0,
                         sell_tax |-> tax, can_take_back_ownership |-> own]

\* What the web services answer during one research_pair call
Worlds ==
    {[etherscan |-> Unreachable, dexscreener |-> Unreachable, honeypot |-> Unreachable],
     [etherscan |-> Etherscan, dexscreener |-> DexScreener, honeypot |-> HoneypotIs(0, FALSE)],
     [etherscan |-> Etherscan, dexscreener |-> DexScreener, honeypot |-> HoneypotIs(30, FALSE)],
     [etherscan |-> Etherscan, dexscreener |-> DexScreener, honeypot |-> HoneypotIs(0, TRUE)]}

\* What the scaler and the isolation forest answer during one check_honeypot
MlAnswers ==
    {[ok |-> FALSE],
     [ok |-> TRUE, prediction |-> -1, score |-> -500],
     [ok |-> TRUE, prediction |-> 1, score |-> -500]}

\* MLArbitrageSystem.__init__: load_models() finds a saved model or not
PipelineInit ==
    /\ ScraperInit
    /\ ScorerInit
    /\ block = <<>>
    /\ calls = <<>>
    /\ is_running = FALSE
    /\ rust_process = "None"
    /\ opportunities_queue = <<>>
    /\ cache = EmptyDict
    /\ isolation_forest \in BOOLEAN
    /\ known_honeypots \in {{}, {"0xA"}}
    /\ main = "init"
    /\ producer = "none"
    /\ consumer = "none"
    /\ opportunity = <<>>
    /\ stored = <<>>
    /\ predicted = <<>>
    /\ dequeued = <<>>
    /\ reads = 0

\* Mutant: the queue hands out its newest item.
QueueGet_Newest(q) == [item |-> q[Len(q)], rest |-> SubSeq(q, 1, Len(q) - 1)]

\* asyncio.Queue.get() on a non-empty queue
QueueGet(q) == [item |-> Head(q), rest |-> Tail(q)]

\* Mutant: the short circuit is taken at 0.7 already.
ShortCircuit_AtLeast(risk) == risk >= 700

\* process_opportunities: honeypot_risk > 0.7
ShortCircuit(risk) == risk > 700

\* process_opportunities: viability > 0.6
Viable(viability) == RatLess(<<3, 5>>, viability)

\* Mutant: the detector's risk is handed to predict_viability as the
\* research's honeypot_risk.
Scored_PenalisesRisk(opp, research, risk, t) ==
    IF ShortCircuit(risk)
    THEN Put(Put(opp, "honeypot_risk", risk), "viable", FALSE)
    ELSE LET viability ==
                 PredictViability(opp,
                     Put(research, "risk_factors",
                         Put(Get(research, "risk_factors", EmptyDict), "honeypot_risk", risk)),
                     t, <<>>)
         IN Put(Put(opp, "viability_score", viability), "viable", Viable(viability))

\* The two branches of process_opportunities on the risk: the record as it
\* is handed to store_opportunity.  Nothing has written success_rates.
Scored(opp, research, risk, t) ==
    IF ShortCircuit(risk)
    THEN Put(Put(opp, "honeypot_risk", risk), "viable", FALSE)
    ELSE LET viability == PredictViability(opp, research, t, <<>>)
         IN Put(Put(opp, "viability_score", viability), "viable", Viable(viability))

\* main() -> start(): is_running, start_rust_scanner() (which starts the
\* scanner, or returns after a failed build, or raises), create_task x 4
Start(outcome) ==
    /\ main = "init"
    /\ is_running' = TRUE
    /\ rust_process' = IF outcome = "started" THEN "running" ELSE "None"
    /\ IF outcome = "raised"
       THEN main' = "finally" /\ UNCHANGED <<producer, consumer>>
       ELSE main' = "gather" /\ producer' = "loop" /\ consumer' = "get"
    /\ UNCHANGED <<svars, cvars, opportunities_queue, cache, isolation_forest, known_honeypots,
                   opportunity, stored, predicted, dequeued, reads>>

\* Time passes
Tick ==
    /\ main = "gather"
    /\ now < MaxClock
    /\ now' = now + 1
    /\ UNCHANGED <<buffer, current_opportunity, fed, emitted, ret, raised, trigger, api,
                   block, calls, pvars, cvars>>

\* scrape_terminal: one turn of the loop, from readline() to the sleep.  An
\* exception of parse_line is caught and logged by the loop.
ProducerRead(line) ==
    /\ producer = "loop"
    /\ is_running
    /\ rust_process = "running"
    /\ reads < MaxReads
    /\ reads' = reads + 1
    /\ IF line = EOF
       THEN UNCHANGED <<buffer, current_opportunity, emitted, opportunities_queue>>
       ELSE \E o \in {ParseLine(current_opportunity, buffer, line, now)} :
              /\ buffer' = o.buf
              /\ current_opportunity' = o.cur
              /\ emitted' = emitted \o o.ret
              /\ opportunities_queue' =
                    IF o.raised \/ o.ret = <<>> THEN opportunities_queue
                    ELSE Append(opportunities_queue,
                                [id |-> Len(emitted) + 1, opp |-> o.ret[1]])
    /\ UNCHANGED <<cvars, now, fed, ret, raised, trigger, api, block, calls, is_running,
                   rust_process, cache, isolation_forest, known_honeypots, main,
                   producer, consumer, opportunity, stored, predicted, dequeued>>

\* process_opportunities: queue.get() returns and research_pair is awaited
ConsumerGet ==
    /\ consumer = "get"
    /\ is_running
    /\ opportunities_queue # <<>>
    /\ \E g \in {QueueGet(opportunities_queue)} :
          /\ opportunity' = <<g.item>>
          /\ opportunities_queue' = g.rest
          /\ dequeued' = Append(dequeued, g.item.id)
    /\ consumer' = "research"
    /\ UNCHANGED <<svars, cvars, is_running, rust_process, cache, isolation_forest,
                   known_honeypots, main, producer, stored, predicted, reads>>

\* process_opportunities: research_pair returns (the services having
\* answered as in w), then check_honeypot (the model answering ml), the
\* branch on the risk and store_opportunity, with no await in between.  Had
\* research_pair raised, the loop's handler would log and drop the record.
ProcessOpportunity(w, ml) ==
    /\ consumer = "research"
    /\ isolation_forest \/ ~ml.ok
    /\ \E rp \in {ResearchPair(opportunity[1].opp, w, cache, now)} :
          /\ cache' = rp.cache
          /\ IF rp.raised THEN UNCHANGED <<stored, predicted>>
             ELSE \E risk \in {CheckHoneypot(opportunity[1].opp, rp.research,
                                             isolation_forest, known_honeypots,
                                             known_safe, ml)} :
                    /\ stored' = Append(stored,
                          [id |-> opportunity[1].id,
                           opportunity |-> Scored(opportunity[1].opp, rp.research, risk, now),
                           research |-> rp.research,
                           risk |-> risk,
                           failed |-> ~AllOk(w)])
                    /\ predicted' = IF ShortCircuit(risk) THEN predicted
                                    ELSE Append(predicted, opportunity[1].id)
    /\ consumer' = "get"
    /\ opportunity' = <<>>
    /\ UNCHANGED <<svars, cvars, is_running, rust_process, opportunities_queue,
                   isolation_forest, known_honeypots, main, producer, dequeued, reads>>

\* Ctrl-C: gather() is cancelled and cancels the tasks, each at the await it
\* is suspended in (CancelledError is not an Exception, so no handler of the
\* loops catches it); main() goes on to its finally clause.
Interrupt ==
    /\ main = "gather"
    /\ main' = "finally"
    /\ producer' = "cancelled"
    /\ consumer' = "cancelled"
    /\ UNCHANGED <<svars, cvars, is_running, rust_process, opportunities_queue, cache,
                   isolation_forest, known_honeypots, opportunity, stored, predicted,
                   dequeued, reads>>

\* shutdown(), from main()'s finally clause
Shutdown ==
    /\ main = "finally"
    /\ is_running' = FALSE
    /\ rust_process' = IF rust_process = "running" THEN "terminated" ELSE rust_process
    /\ main' = "done"
    /\ UNCHANGED <<svars, cvars, opportunities_queue, cache, isolation_forest, known_honeypots,
                   producer, consumer, opportunity, stored, predicted, dequeued, reads>>

PipelineNext ==
    \/ \E outcome \in {"started", "build_failed", "raised"} : Start(outcome)
    \/ Tick
    \/ \E line \in Stdout : ProducerRead(line)
    \/ ConsumerGet
    \/ \E w \in Worlds, ml \in MlAnswers : ProcessOpportunity(w, ml)
    \/ Interrupt
    \/ Shutdown

PipelineSpec == PipelineInit /\ [][PipelineNext]_vars

----------------------------------------------------------------------------
(* Properties of the pipeline (PipelineSpec) *)

\* The number of times x occurs in seq
Count(seq, x) == Cardinality({i \in 1..Len(seq) : seq[i] = x})

\* The record with id n has been handed to store_opportunity
IsStored(n) == \E j \in 1..Len(stored) : stored[j].id = n

\* A stored record without what process_opportunities wrote into it
Unscored(opp) ==
    [k \in (DOMAIN opp) \ {"honeypot_risk", "viable", "viability_score"} |-> opp[k]]

\* C6: for every record processed, a risk above 0.7 means predict_viability
\* was not invoked for it and it is marked viable = False; a risk of at most
\* 0.7 (0.7 included) means predict_viability was invoked exactly once and
\* viable is (score > 0.6).  No record with risk above 0.7 is marked viable.
C6_ShortCircuitAboveThreshold ==
    /\ \A i \in 1..Len(stored) :
         LET e == stored[i] IN
         IF e.risk > 700
         THEN /\ Count(predicted, e.id) = 0
              /\ ~Has(e.opportunity, "viability_score")
              /\ e.opportunity["viable"] = FALSE
         ELSE /\ Count(predicted, e.id) = 1
              /\ Has(e.opportunity, "viability_score")
              /\ e.opportunity["viable"] = RatLess(<<3, 5>>, e.opportunity["viability_score"])
    /\ \A i \in 1..Len(predicted) : IsStored(predicted[i])

\* C6 witness: a record with risk exactly 0.7 went through predict_viability,
\* another with higher risk was short-circuited.
C6_Witness ==
    /\ \E i \in 1..Len(stored) : stored[i].risk = 700 /\ Count(predicted, stored[i].id) = 1
    /\ \E i \in 1..Len(stored) : stored[i].risk > 700 /\ ~stored[i].opportunity["viable"]

\* C7: the consumer takes the records in the order parse_line emitted them,
\* each at most once (the k-th record dequeued is the k-th emitted, the queue
\* holds the following ones in order), and the records handed to
\* store_opportunity are dequeued records, in order, none twice.
C7_FifoAtMostOnce ==
    /\ \A i \in 1..Len(dequeued) : dequeued[i] = i
    /\ \A j \in 1..Len(opportunities_queue) :
         /\ opportunities_queue[j].id = Len(dequeued) + j
         /\ opportunities_queue[j].opp = emitted[Len(dequeued) + j]
    /\ consumer = "research" =>
         /\ opportunity[1].id = Len(dequeued)
         /\ opportunity[1].opp = emitted[Len(dequeued)]
    /\ \A i \in 1..Len(stored) :
         /\ stored[i].id \in 1..Len(dequeued)
         /\ Unscored(stored[i].opportunity) = emitted[stored[i].id]
    /\ \A i, j \in 1..Len(stored) : i < j => stored[i].id < stored[j].id

\* C7 witness: two different records were emitted, both were dequeued and
\* the first has been stored.
C7_Witness ==
    /\ Len(dequeued) = 2
    /\ Len(stored) >= 1
    /\ emitted[1] # emitted[2]

\* C8: every record handed to store_opportunity carries the risk
\* check_honeypot computed for it as honeypot_risk, short-circuited or not,
\* and carries viability_score exactly when it was not short-circuited.
C8_ScoresAttachedInBothBranches ==
    \A i \in 1..Len(stored) :
        LET e == stored[i] IN
        /\ Has(e.opportunity, "honeypot_risk")
        /\ e.opportunity["honeypot_risk"] = e.risk
        /\ Has(e.opportunity, "viability_score") <=> (e.risk <= 700)

C10_InFlightRecordCompletes ==
    (main = "done" /\ ~is_running) => \A i \in 1..Len(dequeued) : IsStored(dequeued[i])

----------------------------------------------------------------------------
(* DetectorSpec: a HoneypotDetector whose methods are called on token,     *)
(* opportunity and research dicts.  call holds the method, its arguments   *)
(* and its result; before holds the call a varied call is compared with.   *)
(* No method writes a field of the detector, so a call says the same after *)
(* other calls as on the detector as loaded: calls start from there.       *)

MaxTokens == 2

\* A token_data dict with every key the scorers read
Token(address, verified, age, holders, liquidity, volume, honeypot, tax, own) ==
    [address |-> address, contract_verified |-> verified, age_days |-> age,
     holder_count |-> holders, liquidity_usd |-> liquidity, volume_24h |-> volume,
     is_honeypot |-> honeypot, tax_sell |-> tax, can_take_back_ownership |-> own]

SellTaxes == {0, 10, 11, 25, 26, 50, 51, 60}

\* The token_data dicts _evaluate_token_risk is called with: the values on
\* both sides of every comparison of the method, and the dict with no keys
TokenGrid ==
    {Token(a, v, g, h, l, 50000, p, t, o) :
        a \in {"None", "0xA"}, v \in BOOLEAN, g \in {0, 1, 7}, h \in {0, 10, 50},
        l \in {0, 1000, 10000}, p \in BOOLEAN, t \in SellTaxes, o \in BOOLEAN}
    \cup {EmptyDict}

T_clean == Token("0xB", TRUE, 400, 1000, 500000, 50000, FALSE, 0, FALSE)
T_taxed == Token("0xB", TRUE, 400, 1000, 500000, 50000, FALSE, 30, FALSE)
T_pot   == Token("0xA", TRUE, 400, 1000, 500000, 50000, TRUE, 0, FALSE)
T_zero  == Token("None", FALSE, 0, 0, 0, 0, FALSE, 0, FALSE)

SampleTokens == {T_clean, T_taxed, T_pot, T_zero, EmptyDict}

SymbolOf(i) == IF i = 1 THEN "FOO" ELSE IF i = 2 THEN "BAR" ELSE IF i = 3 THEN "BAZ" ELSE "QUX"

\* research['tokens'] holding the token_data dicts vals, in this order
TokenItems(vals) == [i \in 1..Len(vals) |-> [key |-> SymbolOf(i), value |-> vals[i]]]

\* A dict with the key k when v is <<value>> and without it when v is <<>>
PutIf(d, k, v) == IF v = <<>> THEN d ELSE Put(d, k, v[1])

\* A research dict with or without each of its keys
Research(tokens, liquidity, risk_factors) ==
    PutIf(PutIf(PutIf(EmptyDict, "tokens", tokens), "liquidity", liquidity),
          "risk_factors", risk_factors)

\* research['liquidity'], with or without the figures of the two venues
Liquidity(buy, sell) ==
    PutIf(PutIf(EmptyDict, "buy_dex_liquidity", buy), "sell_dex_liquidity", sell)

LiquidityData ==
    {Liquidity(<<>>, <<>>), Liquidity(<<0>>, <<0>>), Liquidity(<<500000>>, <<5000>>),
     Liquidity(<<0>>, <<5000>>), Liquidity(<<5000>>, <<50000>>), Liquidity(<<5000>>, <<50001>>)}

\* An opportunity dict as far as the detector reads it
Opportunity(net_profit, buy_dex, sell_dex) ==
    PutIf(PutIf(PutIf(EmptyDict, "net_profit", net_profit), "buy_dex", buy_dex),
          "sell_dex", sell_dex)

DetectorOpportunities ==
    {Opportunity(<<>>, <<>>, <<>>),
     Opportunity(<<120000>>, << <<"UniswapV2">> >>, << <<"Sushiswap">> >>),
     Opportunity(<<1000000>>, << <<"UniswapV2">> >>, << <<"Sushiswap">> >>),
     Opportunity(<<1000010>>, << <<"UniswapV2">> >>, << <<"Sushiswap">> >>),
     Opportunity(<<120000>>, << <<"UniswapV2">> >>, << <<"NEW", "Swap">> >>),
     Opportunity(<<0>>, << <<"New", "Dex">> >>, << <<"Sushiswap">> >>)}

DetectorResearch ==
    {Research(<<>>, <<>>, <<>>)}
    \cup {Research(<<TokenItems(ts)>>, <<l>>, <<>>) :
            ts \in SeqsUpTo(SampleTokens, MaxTokens), l \in LiquidityData}

\* Every answer of the scaler and the forest: an exception, or a prediction
\* with a score_samples value, which lies between -1 and 0
MlRange ==
    {[ok |-> FALSE]}
    \cup {[ok |-> TRUE, prediction |-> p, score |-> s] :
            p \in {-1, 1}, s \in {-1000, -500, 0}}

\* HoneypotDetector.__init__, and load_model() when a model was saved; the
\* safe list is what a client has put there
DetectorInit ==
    /\ ScraperInit
    /\ block = <<>>
    /\ calls = <<>>
    /\ is_running = FALSE
    /\ rust_process = "None"
    /\ opportunities_queue = <<>>
    /\ cache = EmptyDict
    /\ isolation_forest \in BOOLEAN
    /\ known_honeypots \in {{}, {"0xA"}}
    /\ main = "init"
    /\ producer = "none"
    /\ consumer = "none"
    /\ opportunity = <<>>
    /\ stored = <<>>
    /\ predicted = <<>>
    /\ dequeued = <<>>
    /\ reads = 0
    /\ known_safe \in {{}, {"0xA"}}
    /\ execution_history = <<>>
    /\ success_rates = <<>>
    /\ executions = <<>>
    /\ call = <<>>
    /\ before = <<>>

\* The record of a call of _evaluate_token_risk(token_data)
TokenRiskCall(x, via) ==
    [op |-> "_evaluate_token_risk", token_data |-> x, via |-> via,
     result |-> EvaluateTokenRisk(x, known_honeypots, known_safe)]

\* A client calls _evaluate_token_risk(x)
CallEvaluateTokenRisk ==
    /\ call = <<>>
    /\ \E x \in TokenGrid : call' = <<TokenRiskCall(x, "call")>>
    /\ before' = <<>>
    /\ UNCHANGED <<svars, pvars, known_safe, execution_history, success_rates, executions>>

\* ... and calls it again on the same token with a higher sell tax
RaiseSellTax ==
    /\ call # <<>>
    /\ call[1].op = "_evaluate_token_risk"
    /\ call[1].via = "call"
    /\ Has(call[1].token_data, "tax_sell")
    /\ before' = call
    /\ \E tax \in {t \in SellTaxes : t > call[1].token_data["tax_sell"]} :
          call' = <<TokenRiskCall(Put(call[1].token_data, "tax_sell", tax), "raise_tax")>>
    /\ UNCHANGED <<svars, pvars, known_safe, execution_history, success_rates, executions>>

\* A client calls _evaluate_pair_risk(opp, research)
CallEvaluatePairRisk ==
    /\ call = <<>>
    /\ \E opp \in DetectorOpportunities, research \in DetectorResearch :
          call' = <<[op |-> "_evaluate_pair_risk", opportunity |-> opp,
                     research |-> research, via |-> "call",
                     result |-> EvaluatePairRisk(opp, research)]>>
    /\ before' = <<>>
    /\ UNCHANGED <<svars, pvars, known_safe, execution_history, success_rates, executions>>

\* The record of a call of check_honeypot(opp, research), the scaler and the
\* forest answering ml
CheckHoneypotCall(opp, research, ml, via) ==
    [op |-> "check_honeypot", opportunity |-> opp, research |-> research, ml |-> ml,
     via |-> via,
     result |-> CheckHoneypot(opp, research, isolation_forest, known_honeypots,
                              known_safe, ml)]

\* A client calls check_honeypot(opp, research)
CallCheckHoneypot ==
    /\ call = <<>>
    /\ \E opp \in DetectorOpportunities, research \in DetectorResearch,
          ml \in {a \in MlRange : isolation_forest \/ ~a.ok} :
          call' = <<CheckHoneypotCall(opp, research, ml, "call")>>
    /\ before' = <<>>
    /\ UNCHANGED <<svars, pvars, known_safe, execution_history, success_rates, executions>>

DetectorNext ==
    \/ CallEvaluateTokenRisk
    \/ RaiseSellTax
    \/ CallEvaluatePairRisk
    \/ CallCheckHoneypot

DetectorSpec == DetectorInit /\ [][DetectorNext]_vars

----------------------------------------------------------------------------
(* The detector's contracts, over the calls of DetectorSpec *)

\* The call just made is a call of the method op
Called(op) == call # <<>> /\ call[1].op = op

\* The largest member of a non-empty set of numbers
SetMax(S) == CHOOSE m \in S : \A y \in S : y <= m

\* The address of the token is on neither list of the detector
Unlisted(x) == Get(x, "address", "None") \notin (known_honeypots \cup known_safe)

\* The severities of the table that token_data x triggers
Severities(x) ==
    LET tax == Get(x, "tax_sell", 0) IN
    (IF Get(x, "is_honeypot", FALSE) THEN {900} ELSE {})
    \cup (IF tax > 50 THEN {950} ELSE IF tax > 25 THEN {700} ELSE IF tax > 10 THEN {400} ELSE {})
    \cup (IF Get(x, "can_take_back_ownership", FALSE) THEN {800} ELSE {})
    \cup (IF Get(x, "liquidity_usd", 0) < 10000 THEN {600} ELSE {})
    \cup (IF Get(x, "age_days", 0) < 7 THEN {500} ELSE {})
    \cup (IF Get(x, "holder_count", 0) < 50 THEN {600} ELSE {})

\* C11: for a token on neither list, _evaluate_token_risk returns exactly the
\* largest severity of the table that the token triggers (0 if none); no
\* severity is added to another.
C11_TokenRiskIsTableMax ==
    (Called("_evaluate_token_risk") /\ Unlisted(call[1].token_data))
        => call[1].result = SetMax(Severities(call[1].token_data) \cup {0})

\* The risks check_honeypot puts together for the call c
Components(c) ==
    LET vals == Values(Get(c.research, "tokens", <<>>)) IN
    {EvaluateTokenRisk(vals[i], known_honeypots, known_safe) : i \in 1..Len(vals)}
    \cup {EvaluatePairRisk(c.opportunity, c.research)}
    \cup (IF isolation_forest THEN {MlRiskAssessment(c.ml)} ELSE {})

\* C12: check_honeypot returns exactly the largest of the per-token risks of
\* all research tokens, the pair risk and, when a model is installed, the
\* anomaly-model risk; the result lies in [0,1] for every answer of the
\* model and for a research record with no tokens.
C12_OverallRiskIsMaxInRange ==
    Called("check_honeypot")
        => /\ call[1].result = SetMax(Components(call[1]))
           /\ 0 <= call[1].result /\ call[1].result <= 1000

\* A model is installed and flags a record with no tokens as the deepest
\* anomaly: the overall risk is the model's 1.0
C12_Witness ==
    /\ Called("check_honeypot")
    /\ isolation_forest
    /\ Values(Get(call[1].research, "tokens", <<>>)) = <<>>
    /\ call[1].ml = [ok |-> TRUE, prediction |-> -1, score |-> -1000]
    /\ call[1].result = 1000
    /\ EvaluatePairRisk(call[1].opportunity, call[1].research) < 1000

\* C13: a token whose address is in known_honeypots gets risk exactly 1.0,
\* whatever its other attributes and whether or not it is in known_safe; a
\* token in known_safe and not in known_honeypots gets the smaller of 0.2 and
\* the risk it would get on neither list, so the safe list never raises it.
C13_KnownListsOverride ==
    Called("_evaluate_token_risk") =>
        LET x == call[1].token_data
            address == Get(x, "address", "None")
            otherwise == EvaluateTokenRisk(x, {}, {})
        IN /\ address \in known_honeypots => call[1].result = 1000
           /\ address \in known_safe \ known_honeypots =>
                 /\ call[1].result = Min(otherwise, 200)
                 /\ call[1].result <= otherwise

\* A token on both lists that would otherwise score nothing gets 1.0
C13_Witness ==
    /\ Called("_evaluate_token_risk")
    /\ Get(call[1].token_data, "address", "None") \in known_honeypots \cap known_safe
    /\ EvaluateTokenRisk(call[1].token_data, {}, {}) = 0
    /\ call[1].result = 1000

\* C14: a token with tax_sell = 60 on neither list gets the risk 0.95,
\* whatever is_honeypot, can_take_back_ownership, liquidity_usd, age_days,
\* holder_count and contract_verified are.
C14_ExtremeTaxAloneDecides ==
    (/\ Called("_evaluate_token_risk")
     /\ Unlisted(call[1].token_data)
     /\ Get(call[1].token_data, "tax_sell", 0) = 60)
        => call[1].result = 950

\* C15: with the other attributes and the two lists fixed, the risk of
\* _evaluate_token_risk does not decrease when tax_sell grows.
C15_RiskMonotoneInSellTax ==
    (Called("_evaluate_token_risk") /\ call[1].via = "raise_tax")
        => /\ Drop(before[1].token_data, "tax_sell") = Drop(call[1].token_data, "tax_sell")
           /\ before[1].token_data["tax_sell"] <= call[1].token_data["tax_sell"]
           /\ before[1].result <= call[1].result

\* The tax goes from 25 to 26 and the risk goes up
C15_Witness ==
    /\ Called("_evaluate_token_risk")
    /\ call[1].via = "raise_tax"
    /\ before[1].token_data["tax_sell"] = 25
    /\ call[1].token_data["tax_sell"] = 26
    /\ before[1].result < call[1].result

\* The floors the pair risk is made of, an imbalance counting whenever the
\* larger liquidity figure is positive and more than ten times the smaller
PairFloors(opp, buy, sell) ==
    (IF Get(opp, "net_profit", 0) > 1000 * 1000 THEN {300} ELSE {})
    \cup (IF HasNew(Get(opp, "buy_dex", <<>>)) \/ HasNew(Get(opp, "sell_dex", <<>>))
          THEN {400} ELSE {})
    \cup (IF Max(buy, sell) > 0 /\ 10 * Min(buy, sell) < Max(buy, sell) THEN {500} ELSE {})

\* C16: _evaluate_pair_risk returns the largest of the triggered floors: 0.3
\* for net_profit > 1000, 0.4 for a venue name containing 'new', 0.5 whenever
\* the larger liquidity figure is positive and min/max < 0.1, also when the
\* smaller figure is 0; 0 when none is triggered.
C16_PairRiskIsLargestFloor ==
    (/\ Called("_evaluate_pair_risk")
     /\ Has(Get(call[1].research, "liquidity", EmptyDict), "buy_dex_liquidity")
     /\ Has(Get(call[1].research, "liquidity", EmptyDict), "sell_dex_liquidity"))
        => call[1].result =
              SetMax(PairFloors(call[1].opportunity,
                                call[1].research["liquidity"]["buy_dex_liquidity"],
                                call[1].research["liquidity"]["sell_dex_liquidity"])
                     \cup {0})

----------------------------------------------------------------------------
(* PredictorSpec: an ExecutionPredictor whose history is filled through    *)
(* update_execution_result and whose scoring methods are then called.  A   *)
(* call of predict_viability is recorded with what check_honeypot (of a    *)
(* detector as constructed) says of the same arguments, the two being      *)
(* called on the same dicts by process_opportunities.                      *)

MaxUpdates == 2

O_good ==
    [pair |-> <<"FOO", "/", "BAR">>, buy_dex |-> <<"UniswapV2">>,
     sell_dex |-> <<"Sushiswap">>, net_profit |-> 120000, gas_cost |-> 15000,
     gas_ratio |-> <<1, 10>>]

\* The same pair traded the other way round
O_back == [O_good EXCEPT !["buy_dex"] = <<"Sushiswap">>, !["sell_dex"] = <<"UniswapV2">>]

\* Nothing earned and nothing spent
O_zero == [O_good EXCEPT !["net_profit"] = 0, !["gas_cost"] = 0, !["gas_ratio"] = <<0, 1>>]

\* A loss of $1,000,000
O_loss == [O_good EXCEPT !["net_profit"] = -1000000 * 1000]

\* A profit of $20,000 at a gas cost of $150
O_huge == [O_good EXCEPT !["net_profit"] = 20000 * 1000, !["gas_cost"] = 150000,
                         !["gas_ratio"] = <<9, 10>>]

PredictorOpportunities == {EmptyDict, O_good, O_zero, O_loss, O_huge}

PredictorTokens == {T_clean, T_zero, EmptyDict}

\* research['risk_factors']: absent, or with a honeypot_risk of 0.6 or 1.5
RiskFactors == {<<>>, <<[honeypot_risk |-> 600]>>, <<[honeypot_risk |-> 1500]>>}

PredictorResearch ==
    {Research(<<>>, <<>>, rf) : rf \in RiskFactors}
    \cup {Research(<<TokenItems(ts)>>, <<Liquidity(<<0>>, <<5000>>)>>, rf) :
            ts \in SeqsUpTo(PredictorTokens, MaxTokens), rf \in RiskFactors}

\* net_profit values (thousandths) on both sides of every bracket of
\* _score_profit
ProfitValues ==
    {-1000000 * 1000, -1, 0, 1, 9999, 10000, 49999, 50000, 99999, 100000, 120000,
     499999, 500000, 4999999, 5000000, 5000001, 20000 * 1000}

ProfitOpportunities == {EmptyDict} \cup {[net_profit |-> p] : p \in ProfitValues}

\* Viability scores: every twentieth from 0 to 1
Scores == {Rat(k, 20) : k \in 0..20}

\* ExecutionPredictor.__init__ beside a freshly constructed system
PredictorInit ==
    /\ ScraperInit
    /\ SystemInit
    /\ ScorerInit
    /\ block = <<>>
    /\ calls = <<>>

\* The number of executions recorded in the history
RECURSIVE Attempts(_)
Attempts(history) ==
    IF history = <<>> THEN 0 ELSE Head(history).value.attempts + Attempts(Tail(history))

\* A client reports an execution: update_execution_result(opp, success, _)
RecordExecution ==
    /\ call = <<>>
    /\ Attempts(execution_history) < MaxUpdates
    /\ \E opp \in {O_good, O_back}, success \in BOOLEAN :
         \E u \in {UpdateExecutionResult(opp, success, execution_history, success_rates)} :
            /\ execution_history' = u.history
            /\ success_rates' = u.rates
            /\ executions' = Append(executions, [key |-> TradeKey(opp), success |-> success])
    /\ UNCHANGED <<svars, pvars, known_safe, call, before>>

\* Time passes before the scoring
PredictorTick ==
    /\ call = <<>>
    /\ now < MaxClock
    /\ now' = now + 1
    /\ UNCHANGED <<buffer, current_opportunity, fed, emitted, ret, raised, trigger, api,
                   block, calls, pvars, cvars>>

\* A client calls _score_profit(opp)
CallScoreProfit ==
    /\ call = <<>>
    /\ \E opp \in ProfitOpportunities :
          call' = <<[op |-> "_score_profit", opportunity |-> opp, via |-> "call",
                     result |-> ScoreProfit(opp)]>>
    /\ before' = <<>>
    /\ UNCHANGED <<svars, pvars, known_safe, execution_history, success_rates, executions>>

\* The record of a call of predict_viability(opp, research)
PredictViabilityCall(opp, research, via) ==
    [op |-> "predict_viability", opportunity |-> opp, research |-> research, via |-> via,
     result |-> PredictViability(opp, research, now, success_rates),
     honeypot_risk |-> CheckHoneypot(opp, research, isolation_forest, known_honeypots,
                                     known_safe, [ok |-> FALSE])]

\* A client calls predict_viability(opp, research)
CallPredictViability ==
    /\ call = <<>>
    /\ ~isolation_forest
    /\ \E opp \in PredictorOpportunities, research \in PredictorResearch :
          call' = <<PredictViabilityCall(opp, research, "call")>>
    /\ before' = <<>>
    /\ UNCHANGED <<svars, pvars, known_safe, execution_history, success_rates, executions>>

\* The value a numeric or boolean key has when it says nothing
ZeroOf(k) ==
    IF k \in {"contract_verified", "is_honeypot", "can_take_back_ownership"} THEN FALSE
    ELSE IF k = "gas_ratio" THEN <<0, 1>>
    ELSE 0

\* The dicts got from d by deleting one of the keys ks that holds its zero
WithoutZero(d, ks) == {Drop(d, k) : k \in {j \in ks \cap DOMAIN d : d[j] = ZeroOf(j)}}

TokenKeys ==
    {"age_days", "holder_count", "liquidity_usd", "volume_24h", "tax_sell",
     "contract_verified", "is_honeypot", "can_take_back_ownership"}

\* The arguments got from (opp, research) by deleting one zero-valued field
ZeroDeletions(opp, research) ==
    LET items == Get(research, "tokens", <<>>)
        liquidity_data == Get(research, "liquidity", EmptyDict)
    IN {[opportunity |-> o, research |-> research] :
            o \in WithoutZero(opp, {"net_profit", "gas_cost", "gas_ratio"})}
       \cup {[opportunity |-> opp,
              research |-> Put(research, "tokens",
                               [items EXCEPT ![p[1]] = [key |-> @.key, value |-> p[2]]])] :
               p \in UNION {{<<i, x>> : x \in WithoutZero(items[i].value, TokenKeys)} :
                              i \in 1..Len(items)}}
       \cup {[opportunity |-> opp, research |-> Put(research, "liquidity", l)] :
               l \in WithoutZero(liquidity_data,
                                 {"buy_dex_liquidity", "sell_dex_liquidity"})}

\* ... and calls it again with one zero-valued field deleted
DropZeroField ==
    /\ call # <<>>
    /\ call[1].op = "predict_viability"
    /\ call[1].via = "call"
    /\ before' = call
    /\ \E v \in ZeroDeletions(call[1].opportunity, call[1].research) :
          call' = <<PredictViabilityCall(v.opportunity, v.research, "drop")>>
    /\ UNCHANGED <<svars, pvars, known_safe, execution_history, success_rates, executions>>

\* process_opportunities decides on a score (viable = viability > 0.6) and a
\* client asks get_execution_recommendation about the same score
CallGetExecutionRecommendation ==
    /\ call = <<>>
    /\ \E viability \in Scores :
          call' = <<[op |-> "get_execution_recommendation", viability |-> viability,
                     via |-> "call", viable |-> Viable(viability),
                     result |-> GetExecutionRecommendation(viability)]>>
    /\ before' = <<>>
    /\ UNCHANGED <<svars, pvars, known_safe, execution_history, success_rates, executions>>

PredictorNext ==
    \/ RecordExecution
    \/ PredictorTick
    \/ CallScoreProfit
    \/ CallPredictViability
    \/ CallGetExecutionRecommendation

PredictorSpec == PredictorInit /\ [][PredictorNext]_vars

\* AbsentFieldSpec: freshly constructed scorers score a record, and score it
\* again with one zero-valued field deleted
AbsentFieldNext ==
    \/ CallPredictViability
    \/ DropZeroField

AbsentFieldSpec == PredictorInit /\ [][AbsentFieldNext]_vars

----------------------------------------------------------------------------
(* The predictor's contracts, over the calls of PredictorSpec and of       *)
(* AbsentFieldSpec                                                         *)

\* The rational x lies in [0, 1]
InUnit(x) == ~RatLess(x, <<0, 1>>) /\ ~RatLess(<<1, 1>>, x)

\* C17: predict_viability returns a value in [0,1] for every opportunity and
\* research input (a loss of $1,000,000, a profit above $10,000, a research
\* record with no keys, tokens with no fields) and every state of the
\* success-rate history.
C17_ViabilityInUnitInterval ==
    Called("predict_viability") => InUnit(call[1].result)

\* With a recorded history, a research record whose honeypot_risk is 1.5
\* turns the weighted score negative and predict_viability returns 0
C17_Witness ==
    /\ Called("predict_viability")
    /\ success_rates # <<>>
    /\ call[1].opportunity = O_huge
    /\ Get(Get(call[1].research, "risk_factors", EmptyDict), "honeypot_risk", 0) = 1500
    /\ RatLess(ApplyPenalties(WeightedFrom(1, call[1].opportunity, call[1].research, now,
                                           success_rates),
                              call[1].opportunity, call[1].research),
               <<0, 1>>)
    /\ call[1].result = <<0, 1>>

\* The brackets of the profit score, net_profit in thousandths of a dollar
ProfitBracket(net_profit) ==
    IF net_profit <= 0 THEN <<0, 1>>
    ELSE IF net_profit < 10 * 1000 THEN <<1, 5>>
    ELSE IF net_profit < 50 * 1000 THEN <<1, 2>>
    ELSE IF net_profit < 100 * 1000 THEN <<7, 10>>
    ELSE IF net_profit < 500 * 1000 THEN <<17, 20>>
    ELSE IF net_profit < 5000 * 1000 THEN <<19, 20>>
    ELSE <<1, 2>>

\* C18: _score_profit is the bracket function at every net_profit, each
\* boundary included: <= 0 gives 0.0, < 10 gives 0.2, < 50 gives 0.5, < 100
\* gives 0.7, < 500 gives 0.85, < 5000 gives 0.95, >= 5000 gives 0.5.
C18_ProfitScoreIsBracket ==
    Called("_score_profit")
        => call[1].result = ProfitBracket(Get(call[1].opportunity, "net_profit", 0))

\* The tier the recommendation names for the score s
Tier(s) ==
    IF ~RatLess(s, <<4, 5>>) THEN "STRONG BUY"
    ELSE IF ~RatLess(s, <<3, 5>>) THEN "EXECUTE"
    ELSE IF ~RatLess(s, <<2, 5>>) THEN "RISKY"
    ELSE IF ~RatLess(s, <<1, 5>>) THEN "AVOID"
    ELSE "SKIP"

\* C19: at every score the pipeline's viable flag is true exactly when
\* get_execution_recommendation yields an execute tier (STRONG BUY from 0.8,
\* EXECUTE from 0.6) and false exactly when it yields RISKY, AVOID or SKIP.
C19_ViableAgreesWithTier ==
    Called("get_execution_recommendation") =>
        /\ call[1].result[2] = Tier(call[1].viability)
        /\ call[1].viable <=> call[1].result[2] \in {"STRONG BUY", "EXECUTE"}
        /\ ~call[1].viable <=> call[1].result[2] \in {"RISKY", "AVOID", "SKIP"}

\* C20: deleting an input field whose value is 0 or false changes neither
\* the result of check_honeypot nor that of predict_viability.
C20_AbsentFieldIsZero ==
    (Called("predict_viability") /\ call[1].via = "drop")
        => /\ call[1].result = before[1].result
           /\ call[1].honeypot_risk = before[1].honeypot_risk

----------------------------------------------------------------------------
(* RecordSpec: the lines of opportunity blocks, header first, handed to    *)
(* parse_line one by one, with several lines for the same field, malformed *)
(* numbers and addresses.                                                  *)

MaxRecord == 5

\* A second pair, with amount, gross profit, gas cost, provider and address
R_X1 ==
    <<With([pair |-> <<"BAZ", "QUX">>,
            amount |-> << <<"1", ".", "5">>, "ETH" >>,
            gross |-> << <<"1", "5", "0", ".", "0">>, <<"5">> >>,
            gas |-> << <<"1", "5", ".", "0">> >>,
            flash |-> <<"Aave">>,
            addrs |-> <<"0xA">>])>>

\* Other venues ('OldUniswapV2' and 'Curve'), a gross profit of zero, and
\* other values for amount, gas cost, provider and addresses
R_X2 ==
    <<With([dexes |-> << <<"Old", "UniswapV2">>, <<"Curve">> >>,
            amount |-> << <<"2">>, "WETH" >>,
            gross |-> << <<"0", ".", "0">>, <<"0">> >>,
            gas |-> << <<"3", "0">> >>,
            flash |-> <<"Balancer">>,
            addrs |-> <<"0xB", "0xA">>])>>

\* The same venue on both sides, and a gross profit with no gas cost
R_G ==
    <<With([dexes |-> << <<"UniswapV3">>, <<"UniswapV3">> >>,
            gross |-> << <<"1", "5", "0", ".", "0">>, <<"5">> >>])>>

\* A malformed gas cost, followed on the same line by an address
R_Gasbad ==
    <<With([gas |-> << <<"1", ".", "2", ".", "3">> >>, addrs |-> <<"0xB">>])>>

R_N2 == <<With([net |-> << <<"7", ".", "5">> >>])>>

R_B2 == <<With([block |-> << <<"7">> >>])>>

\* The lines a block starts with, and the lines that follow
RecordHeaders == {L_H, L_HD}

RecordLines == {L_H, L_PD, R_X1, R_X2, R_G, R_Gasbad, L_N, R_N2, L_Nbad, L_B, R_B2}

\* A caller invokes parse_line with the first line of the stream, a header
RecordStart ==
    /\ fed = <<>>
    /\ \E l \in RecordHeaders :
         Apply(ParseLine(current_opportunity, buffer, l, now), now, "line", <<l>>)
    /\ UNCHANGED <<block, calls>>

\* ... and with each line that follows
RecordLine ==
    /\ fed # <<>>
    /\ Len(fed) < MaxRecord
    /\ \E l \in RecordLines :
         Apply(ParseLine(current_opportunity, buffer, l, now), now, "line", <<l>>)
    /\ UNCHANGED <<block, calls>>

RecordNext ==
    \/ RecordStart
    \/ RecordLine

RecordSpec == Init /\ [][RecordNext]_vars

----------------------------------------------------------------------------
(* Properties of the records (RecordSpec) *)

DerivedFields == {"gas_ratio", "is_cross_dex", "is_uniswap_v2", "is_uniswap_v3", "is_sushiswap"}

\* The pieces the venue name is made of
Pieces(name) == {name[i] : i \in 1..Len(name)}

\* The derived fields of the record r are those of its own parsed fields
Derived(r) ==
    /\ DerivedFields \subseteq DOMAIN r
    /\ (Has(r, "gross_profit_usd") /\ r["gross_profit_usd"] > 0 /\ Has(r, "gas_cost"))
          => /\ r["gas_ratio"][2] > 0
             /\ r["gas_ratio"][1] * r["gross_profit_usd"] = r["gas_cost"] * r["gas_ratio"][2]
    /\ (~Has(r, "gross_profit_usd") \/ r["gross_profit_usd"] = 0)
          => r["gas_ratio"] = <<1, 1>>
    /\ r["is_cross_dex"] <=> (r["buy_dex"] # r["sell_dex"])
    /\ r["is_uniswap_v2"] <=> "UniswapV2" \in Pieces(r["buy_dex"]) \cup Pieces(r["sell_dex"])
    /\ r["is_uniswap_v3"] <=> "UniswapV3" \in Pieces(r["buy_dex"]) \cup Pieces(r["sell_dex"])
    /\ r["is_sushiswap"] <=> "Sushiswap" \in Pieces(r["buy_dex"]) \cup Pieces(r["sell_dex"])

\* C21: every emitted record carries the derived fields, computed from its
\* own parsed fields: gas_ratio = gas_cost / gross_profit_usd, and 1.0 when
\* gross_profit_usd is absent or zero; is_cross_dex = (buy_dex # sell_dex);
\* each venue flag is true exactly when the venue's name is part of buy_dex
\* or sell_dex.  A pending record carries none of them: they are computed at
\* emission.
C21_DerivedFieldsAtEmission ==
    /\ \A i \in 1..Len(emitted) : Derived(emitted[i])
    /\ DerivedFields \cap DOMAIN current_opportunity = {}

\* C21 witness: gross 150, gas 15, venues UniswapV2 and Sushiswap give
\* gas_ratio 0.1, cross-dex, v2 and sushiswap, not v3.
C21_Witness ==
    /\ ret # <<>>
    /\ Get(ret[1], "gross_profit_usd", 0) = 150000 /\ Get(ret[1], "gas_cost", 0) = 15000
    /\ ret[1]["buy_dex"] = <<"UniswapV2">> /\ ret[1]["sell_dex"] = <<"Sushiswap">>
    /\ ret[1]["gas_ratio"] = <<1, 10>>
    /\ ret[1]["is_cross_dex"] /\ ret[1]["is_uniswap_v2"] /\ ret[1]["is_sushiswap"]
    /\ ~ret[1]["is_uniswap_v3"]

\* The index in fed of the most recent header line
LastHeader == CHOOSE h \in 1..Len(fed) : fed[h][1].hdr /\ \A j \in (h + 1)..Len(fed) : ~fed[j][1].hdr

\* The lines of the record a call has just returned: from its header to the
\* line that completed it, as the patterns match them
RecordSegment == [i \in 1..(Len(fed) - LastHeader + 1) |-> fed[LastHeader + i - 1][1]]

\* The scalar fields of a record and the pattern that supplies each
ScalarFields ==
    {"pair", "buy_dex", "sell_dex", "optimal_amount", "gross_profit_usd", "gas_cost",
     "net_profit", "block", "flashloan_provider"}

PatternOf(key) ==
    CASE key = "pair" -> "pair"
      [] key \in {"buy_dex", "sell_dex"} -> "dexes"
      [] key = "optimal_amount" -> "amount"
      [] key = "gross_profit_usd" -> "gross"
      [] key = "gas_cost" -> "gas"
      [] key = "net_profit" -> "net"
      [] key = "block" -> "block"
      [] key = "flashloan_provider" -> "flash"

\* The number a captured token stands for: <<value>>, or <<>> if it is none
NumberOn(tok) == IF FloatOk(tok) THEN <<FloatOf(tok)>> ELSE <<>>

\* The value of the field key that the matching line m carries: <<value>>
ValueOn(key, m) ==
    CASE key = "pair" -> << <<m.pair[1], "/", m.pair[2]>> >>
      [] key = "buy_dex" -> <<m.dexes[1]>>
      [] key = "sell_dex" -> <<m.dexes[2]>>
      [] key = "optimal_amount" -> NumberOn(m.amount[1])
      [] key = "gross_profit_usd" -> NumberOn(m.gross[1])
      [] key = "gas_cost" -> NumberOn(m.gas[1])
      [] key = "net_profit" -> NumberOn(m.net[1])
      [] key = "block" -> <<IntOf(m.block[1])>>
      [] key = "flashloan_provider" -> <<m.flash[1]>>

\* All hex addresses on the lines seg, in arrival order
RECURSIVE AddressesOn(_)
AddressesOn(seg) == IF seg = <<>> THEN <<>> ELSE Head(seg).addrs \o AddressesOn(Tail(seg))

\* The record r holds, for every scalar field, the value of the latest line
\* of seg that matches the field's pattern, and all addresses of seg
LastWriteWins(r, seg) ==
    /\ \A key \in ScalarFields :
         LET matching == {i \in 1..Len(seg) : seg[i][PatternOf(key)] # <<>>} IN
         IF matching = {} THEN ~Has(r, key)
         ELSE /\ Has(r, key)
              /\ ValueOn(key, seg[CHOOSE i \in matching : \A j \in matching : j <= i])
                    = <<r[key]>>
    /\ Get(r, "addresses", <<>>) = AddressesOn(seg)

\* C22: in every emitted record each scalar field holds the value of the
\* latest line of the record that matches the field's pattern, and addresses
\* is the concatenation, in arrival order and with duplicates, of all hex
\* addresses found on the record's lines.
C22_LastWriteWins ==
    (api = "line" /\ ret # <<>>) => LastWriteWins(ret[1], RecordSegment)

\* The pending record has the field, or the line m matches the pattern that
\* supplies it, the record pending before the call being cur
Supplied(cur, m, key) ==
    (m.hdr \/ Truthy(cur)) /\ ((~m.hdr /\ Has(cur, key)) \/ m[PatternOf(key)] # <<>>)

\* net_profit as it stands after the line m
NetAfter(cur, m) == IF m.net # <<>> THEN FloatOf(m.net[1]) ELSE cur["net_profit"]

\* The step of a parse_line call that returned, from the pending record cur
\* on the line m: once block and net_profit are both there the record is
\* finalized, returned if it is valid and dropped otherwise
FinalizedAtOnce(cur, m, cur_after, returned) ==
    IF Supplied(cur, m, "block") /\ Supplied(cur, m, "net_profit")
    THEN /\ cur_after = EmptyDict
         /\ IF /\ \A key \in {"pair", "buy_dex", "sell_dex"} : Supplied(cur, m, key)
               /\ NetAfter(cur, m) > 0
            THEN Len(returned) = 1 /\ WellFormed(returned[1])
            ELSE returned = <<>>
    ELSE returned = <<>>

\* C23: after every parse_line call that returns, the pending record does
\* not hold both block and net_profit: the line that supplies the second of
\* the two finalizes the record in that call -- returned if it passes
\* validation, dropped otherwise -- and leaves the pending record empty.
C23_CompleteNeverPending ==
    [][(api' = "line" /\ ~raised' /\ fed' # fed) =>
          /\ ~IsComplete(current_opportunity')
          /\ fed'[Len(fed')] # <<>> =>
                FinalizedAtOnce(current_opportunity, fed'[Len(fed')][1],
                                current_opportunity', ret')]_vars

\* C23 witness: the net-profit line came second, without pair or venues: the
\* record was dropped in that call and nothing is pending.
C23_Witness ==
    /\ fed = <<L_H, L_B, L_N>>
    /\ api = "line" /\ ~raised
    /\ ret = <<>>
    /\ current_opportunity = EmptyDict

\* One of the first k lines of seg matches the pattern pat
Arrived(seg, pat, k) == \E i \in 1..k : seg[i][pat] # <<>>

\* In the lines seg of an opportunity, header first, the block line and the
\* net-profit line have both arrived before the pair line or the venue line
CompletedEarly(seg) ==
    \E k \in 1..Len(seg) :
        /\ Arrived(seg, "block", k) /\ Arrived(seg, "net", k)
        /\ ~(Arrived(seg, "pair", k) /\ Arrived(seg, "dexes", k))

\* C24: once the block line and the net-profit line of an opportunity have
\* both arrived before its pair line or its venue line, the record has been
\* finalized and dropped: nothing is pending, the lines that follow are not
\* accumulated, and no record is emitted for that opportunity.
C24_EarlyCompletionDrops ==
    (api = "line" /\ CompletedEarly(RecordSegment))
        => /\ current_opportunity = EmptyDict
           /\ ret = <<>>

----------------------------------------------------------------------------
(* Where a record comes from (Spec).  buffer holds every line parse_line   *)
(* has taken in, in order.                                                 *)

\* _extract_fields over the lines ls in turn, each appended to raw_text
\* first; a line that raises leaves what it had written by then
RECURSIVE Accumulate(_, _)
Accumulate(cur, ls) ==
    IF ls = <<>> THEN cur
    ELSE CHOOSE r \in {Accumulate(s.cur, Tail(ls)) :
                          s \in {ExtractFields([cur EXCEPT !["raw_text"] = Append(@, Head(ls))],
                                               Head(ls)[1])}} : TRUE

\* The record built from the lines buffer[a..b] and from nothing else
BuiltFrom(a, b) ==
    EnrichOpportunity(Accumulate([timestamp |-> 0, raw_text |-> <<>>], SubSeq(buffer, a, b)))

\* Every emitted record is built from a run of lines that starts at a header
\* and holds no other header
EmittedFromOwnLines ==
    \A i \in 1..Len(emitted) :
        \E a \in 1..Len(buffer) : \E b \in a..Len(buffer) :
            /\ buffer[a][1].hdr
            /\ \A j \in (a + 1)..b : ~buffer[j][1].hdr
            /\ StripTs(emitted[i]) = StripTs(BuiltFrom(a, b))

\* The keys of a pending record that the line m supplies
KeysOn(m) ==
    (IF m.pair # <<>> THEN {"token0", "token1", "pair"} ELSE {})
    \cup (IF m.dexes # <<>> THEN {"buy_dex", "sell_dex"} ELSE {})
    \cup (IF m.amount # <<>> THEN {"optimal_amount", "amount_token"} ELSE {})
    \cup (IF m.gross # <<>> THEN {"gross_profit_usd", "gross_profit_wei"} ELSE {})
    \cup (IF m.gas # <<>> THEN {"gas_cost"} ELSE {})
    \cup (IF m.net # <<>> THEN {"net_profit"} ELSE {})
    \cup (IF m.block # <<>> THEN {"block"} ELSE {})
    \cup (IF m.flash # <<>> THEN {"flashloan_provider"} ELSE {})
    \cup (IF m.addrs # <<>> THEN {"addresses"} ELSE {})

\* A parse_line call that returned, on the line l, took the pending record
\* from cur to cur_after: a header leaves nothing of cur, and a line that is
\* no header leaves an empty pending record empty
FreshOrIdle(cur, l, cur_after, returned) ==
    /\ (l[1].hdr /\ cur_after # EmptyDict) =>
          /\ cur_after["raw_text"] = <<l>>
          /\ DOMAIN cur_after \subseteq {"timestamp", "raw_text"} \cup KeysOn(l[1])
    /\ (~l[1].hdr /\ cur = EmptyDict) => (cur_after = EmptyDict /\ returned = <<>>)

\* C25: every emitted record is built only from the lines between its most
\* recent header line and its completing line, both included; a header line
\* discards what was pending and starts a record made of that line alone; a
\* non-header line received while nothing is pending leaves the pending
\* record empty and returns nothing.
C25_RecordFromOwnLines ==
    /\ []EmittedFromOwnLines
    /\ [][(api' = "line" /\ ~raised' /\ fed'[Len(fed')] # <<>>) =>
             FreshOrIdle(current_opportunity, fed'[Len(fed')], current_opportunity', ret')]_vars

\* C25 witness: a block line arrived before the first header and took no
\* part in the record emitted three lines later.
C25_Witness ==
    /\ fed = <<L_B, L_HD, L_N, L_B>>
    /\ api = "line"
    /\ Len(emitted) = 1
    /\ StripTs(emitted[1]) = StripTs(BuiltFrom(2, 4))

----------------------------------------------------------------------------
(* StreamSpec: the pipeline with the producer's readline() call made       *)
(* visible.  self.rust_process.stdout.readline() is a synchronous call on  *)
(* a pipe, made inside the coroutine with no await: from the call to its    *)
(* return the event loop runs no other task.  The producer yields in        *)
(* asyncio.sleep(0.1) only ("loop").                                        *)

\* scrape_terminal: the sleep is over and readline() is called
StreamEnter ==
    /\ producer = "loop"
    /\ is_running
    /\ rust_process = "running"
    /\ reads < MaxReads
    /\ producer' = "readline"
    /\ UNCHANGED <<svars, cvars, is_running, rust_process, opportunities_queue, cache,
                   isolation_forest, known_honeypots, main, consumer, opportunity,
                   stored, predicted, dequeued, reads>>

\* scrape_terminal: the scanner prints a line (or closes its output),
\* readline() returns, the line is parsed, the record enqueued and the
\* producer sleeps
StreamReturn(line) ==
    /\ producer = "readline"
    /\ producer' = "loop"
    /\ reads' = reads + 1
    /\ IF line = EOF
       THEN UNCHANGED <<buffer, current_opportunity, emitted, opportunities_queue>>
       ELSE \E o \in {ParseLine(current_opportunity, buffer, line, now)} :
              /\ buffer' = o.buf
              /\ current_opportunity' = o.cur
              /\ emitted' = emitted \o o.ret
              /\ opportunities_queue' =
                    IF o.raised \/ o.ret = <<>> THEN opportunities_queue
                    ELSE Append(opportunities_queue,
                                [id |-> Len(emitted) + 1, opp |-> o.ret[1]])
    /\ UNCHANGED <<cvars, now, fed, ret, raised, trigger, api, block, calls, is_running,
                   rust_process, cache, isolation_forest, known_honeypots, main,
                   consumer, opportunity, stored, predicted, dequeued>>

\* process_opportunities resumes from queue.get(): the event loop is free
StreamGet ==
    /\ producer # "readline"
    /\ ConsumerGet

\* process_opportunities resumes from research_pair: the event loop is free
StreamProcess(w, ml) ==
    /\ producer # "readline"
    /\ ProcessOpportunity(w, ml)

StreamNext ==
    \/ \E outcome \in {"started", "build_failed", "raised"} : Start(outcome)
    \/ StreamEnter
    \/ \E line \in Stdout : StreamReturn(line)
    \/ StreamGet
    \/ \E w \in Worlds, ml \in MlAnswers : StreamProcess(w, ml)
    \/ Shutdown

StreamSpec == PipelineInit /\ [][StreamNext]_vars

\* The consumer can take its next step: leave queue.get() with a record, or
\* finish research, scoring and storage of the record in flight
ConsumerCanStep ==
    ENABLED (StreamGet \/ \E w \in Worlds, ml \in MlAnswers : StreamProcess(w, ml))

\* C26: the producer's wait for the next line of the stream does not stop
\* the consumer: while the producer waits in readline() and a record is
\* queued or in flight, the consumer can go on to research, score and store
\* it, whether or not the stream ever produces another line.
C26_WaitDoesNotStopConsumer ==
    (producer = "readline" /\ (opportunities_queue # <<>> \/ consumer = "research"))
        => ConsumerCanStep

----------------------------------------------------------------------------
(* HistorySpec: an ExecutionPredictor to which executions are reported     *)
(* through update_execution_result, and whose _score_historical_success is *)
(* then called.                                                            *)

MaxHistory == 3

\* The pair 'WFOO/BAR' on the venues of O_good
O_wrapped == [O_good EXCEPT !["pair"] = <<"W", "FOO", "/", "BAR">>]

\* Another pair on the venues of O_good
O_other == [O_good EXCEPT !["pair"] = <<"BAZ", "/", "QUX">>]

HistoryOpportunities == {O_good, O_back, O_wrapped, O_other}

\* A client reports an execution: update_execution_result(opp, success, _)
HistoryUpdate ==
    /\ call = <<>>
    /\ Len(executions) < MaxHistory
    /\ \E opp \in HistoryOpportunities, success \in BOOLEAN :
         \E u \in {UpdateExecutionResult(opp, success, execution_history, success_rates)} :
            /\ execution_history' = u.history
            /\ success_rates' = u.rates
            /\ executions' = Append(executions, [key |-> TradeKey(opp), success |-> success])
    /\ UNCHANGED <<svars, pvars, known_safe, call, before>>

\* A client calls _score_historical_success(opp)
CallScoreHistoricalSuccess ==
    /\ call = <<>>
    /\ \E opp \in HistoryOpportunities :
          call' = <<[op |-> "_score_historical_success", opportunity |-> opp,
                     via |-> "call",
                     result |-> ScoreHistoricalSuccess(opp, success_rates)]>>
    /\ before' = <<>>
    /\ UNCHANGED <<svars, pvars, known_safe, execution_history, success_rates, executions>>

HistoryNext ==
    \/ HistoryUpdate
    \/ CallScoreHistoricalSuccess

HistorySpec == PredictorInit /\ [][HistoryNext]_vars

----------------------------------------------------------------------------
(* Properties of the execution history (HistorySpec) *)

\* The calls of update_execution_result made for the trade key k
CallsFor(k) == {i \in 1..Len(executions) : executions[i].key = k}

\* The trade keys executions were reported for
KnownKeys == {executions[i].key : i \in 1..Len(executions)}

\* successes / attempts of the trade key k, from the calls made
SuccessRatio(k) ==
    Rat(Cardinality({i \in CallsFor(k) : executions[i].success}), Cardinality(CallsFor(k)))

\* The trade key k was formed from the pair
SharesPair(k, pair) ==
    /\ Len(k) > Len(pair)
    /\ SubSeq(k, 1, Len(pair) + 1) = pair \o <<"_">>

\* The greatest of a non-empty set of rates
BestOf(rs) == CHOOSE r \in rs : \A q \in rs : ~RatLess(r, q)

\* What C27 expects of _score_historical_success(opp)
ExpectedHistorical(opp) ==
    LET k == TradeKey(opp)
        same == {j \in KnownKeys : SharesPair(j, Get(opp, "pair", <<>>))}
    IN IF k \in KnownKeys THEN SuccessRatio(k)
       ELSE IF same # {} THEN RatMul(<<4, 5>>, BestOf({SuccessRatio(j) : j \in same}))
       ELSE <<1, 2>>

\* C27: _score_historical_success returns successes/attempts for a key with
\* recorded executions; for a key without history, 0.8 times the best
\* success rate among the known keys of the same pair, those keys only and
\* also when this is below 0.5; and 0.5 when no known key shares the pair.
C27_HistoricalSuccess ==
    (call # <<>> /\ call[1].op = "_score_historical_success")
        => call[1].result = ExpectedHistorical(call[1].opportunity)

\* The keys of a dict held as the sequence of its items
KeysOf(items) == {items[i].key : i \in 1..Len(items)}

\* No key twice
IsDict(items) == \A i, j \in 1..Len(items) : items[i].key = items[j].key => i = j

\* The history and the rate of every trade key agree with the calls made
HistoryCounts ==
    /\ IsDict(execution_history)
    /\ IsDict(success_rates)
    /\ KeysOf(execution_history) = KnownKeys
    /\ KeysOf(success_rates) = KnownKeys
    /\ \A k \in KnownKeys :
          LET h == ItemAt(execution_history, k)
              rate == ItemAt(success_rates, k)
          IN /\ h.attempts >= 1
             /\ 0 <= h.successes
             /\ h.successes <= h.attempts
             /\ h.attempts = Cardinality(CallsFor(k))
             /\ h.successes = Cardinality({i \in CallsFor(k) : executions[i].success})
             /\ rate[1] * h.attempts = h.successes * rate[2]
             /\ ~RatLess(rate, <<0, 1>>)
             /\ ~RatLess(<<1, 1>>, rate)

\* A call of update_execution_result leaves the history and the rate of
\* every key but its own as they were
OtherKeysUntouched ==
    executions' # executions =>
        \A k \in KnownKeys \ {executions'[Len(executions')].key} :
            /\ ItemAt(execution_history', k) = ItemAt(execution_history, k)
            /\ ItemAt(success_rates', k) = ItemAt(success_rates, k)

\* C28: after any sequence of update_execution_result calls, every trade key
\* of execution_history has attempts >= 1, 0 <= successes <= attempts,
\* attempts equal to the number of calls made for it, successes equal to the
\* number of those with success = True, and success_rates[key] =
\* successes / attempts, within [0, 1]; a call for one key leaves every other
\* key's history and rate unchanged.
C28_HistoryMatchesCalls ==
    /\ []HistoryCounts
    /\ [][OtherKeysUntouched]_vars

\* C28 witness: three calls, two of them for one key (a success, then a
\* failure) and one for another key, whose rate stays 1
C28_Witness ==
    /\ Len(executions) = 3
    /\ executions[1] = [key |-> TradeKey(O_good), success |-> TRUE]
    /\ executions[2] = [key |-> TradeKey(O_back), success |-> TRUE]
    /\ executions[3] = [key |-> TradeKey(O_good), success |-> FALSE]
    /\ ItemAt(execution_history, TradeKey(O_good)) = [attempts |-> 2, successes |-> 1]
    /\ ItemAt(success_rates, TradeKey(O_good)) = <<1, 2>>
    /\ ItemAt(success_rates, TradeKey(O_back)) = <<1, 1>>

----------------------------------------------------------------------------
(* TrainSpec: HoneypotDetector.train called on historical records.  Of a   *)
(* record train reads the opportunity and the research (for                *)
(* _extract_features, which returns None when reading them raises, as with *)
(* 'opportunity': None), the addresses of the research's tokens,            *)
(* execution_success and actual_profit.                                     *)

MaxTrainPrefix == 2

\* The least number of feature rows train goes on with
MinSamples == 10

HistoricalRecord(opp, addresses, execution_success, actual_profit) ==
    [opportunity |-> opp, addresses |-> addresses,
     execution_success |-> execution_success, actual_profit |-> actual_profit]

I_ok      == HistoricalRecord(<<EmptyDict>>, <<"0xC">>, TRUE, 5000)
I_failed  == HistoricalRecord(<<EmptyDict>>, <<"0xB">>, FALSE, 0)
I_loss    == HistoricalRecord(<<EmptyDict>>, <<"0xD", "0xB">>, TRUE, -20000)
I_minus10 == HistoricalRecord(<<EmptyDict>>, <<"0xE">>, TRUE, -10000)
\* 'opportunity': None, an execution that went well
I_none    == HistoricalRecord(<<>>, <<"0xF">>, TRUE, 5000)

TrainItems == {I_ok, I_failed, I_loss, I_minus10, I_none}

\* n records of executions that went well
Filler(n) == [i \in 1..n |-> I_ok]

\* Up to MaxTrainPrefix records followed by 8 or 9 that went well
TrainData ==
    {prefix \o Filler(n) : prefix \in SeqsUpTo(TrainItems, MaxTrainPrefix), n \in {8, 9}}

\* _extract_features(item.get('opportunity', {}), item.get('research', {}))
\* returns a list
ExtractFeaturesOk(item) == item.opportunity # <<>>

\* The label train gives a record
IsHoneypotLabel(item) == ~item.execution_success \/ item.actual_profit < -10000

\* The first loop of train: the labels of the records with features
RECURSIVE Labels(_)
Labels(data) ==
    IF data = <<>> THEN <<>>
    ELSE IF ExtractFeaturesOk(Head(data))
         THEN <<IF IsHoneypotLabel(Head(data)) THEN 1 ELSE 0>> \o Labels(Tail(data))
         ELSE Labels(Tail(data))

\* The set of the elements of a sequence
Range(seq) == {seq[i] : i \in 1..Len(seq)}

\* train(data) on known_honeypots kh: [known_honeypots, fitted]; fitted says
\* that a new IsolationForest was fitted and installed
Train(data, kh) ==
    LET labels == Labels(data)
        zipped == 1..(IF Len(data) < Len(labels) THEN Len(data) ELSE Len(labels))
    IN IF Len(labels) < MinSamples
       THEN [known_honeypots |-> kh, fitted |-> FALSE]
       ELSE [known_honeypots |->
                kh \cup UNION {Range(data[i].addresses) : i \in {j \in zipped : labels[j] = 1}},
             fitted |-> TRUE]

\* A client calls train(data), at most twice
CallTrain ==
    /\ before = <<>>
    /\ \E data \in TrainData :
         \E r \in {Train(data, known_honeypots)} :
            /\ known_honeypots' = r.known_honeypots
            /\ isolation_forest' = (isolation_forest \/ r.fitted)
            /\ call' = <<[op |-> "train", data |-> data, via |-> "call",
                          known_before |-> known_honeypots, fitted |-> r.fitted]>>
    /\ before' = call
    /\ UNCHANGED <<svars, is_running, rust_process, opportunities_queue, cache, main,
                   producer, consumer, opportunity, stored, predicted, dequeued, reads,
                   known_safe, execution_history, success_rates, executions>>

TrainNext == CallTrain

TrainSpec == DetectorInit /\ [][TrainNext]_vars

----------------------------------------------------------------------------
(* Properties of training (TrainSpec) *)

\* The outcome of a record was a failed execution or a loss
BadOutcome(item) == ~item.execution_success \/ item.actual_profit < -10000

\* The token addresses of the records of data that satisfy P
AddressesOf(data, keep) == UNION {Range(data[i].addresses) : i \in keep}

\* The records of data train has features for
UsableIn(data) == {i \in 1..Len(data) : data[i].opportunity # <<>>}

\* C29: train adds to known_honeypots exactly the token addresses of the
\* historical records whose outcome was a failed execution or a loss
\* (actual_profit < -10) and removes none; with fewer than 10 usable samples
\* it leaves known_honeypots and the installed anomaly model unchanged.
C29_TrainUpdatesKnownHoneypots ==
    (call # <<>> /\ call[1].op = "train") =>
        LET data == call[1].data
            usable == UsableIn(data)
            bad == {i \in 1..Len(data) : BadOutcome(data[i])}
        IN /\ call[1].known_before \subseteq known_honeypots
           /\ IF Cardinality(usable) < MinSamples
              THEN known_honeypots = call[1].known_before /\ ~call[1].fitted
              ELSE /\ AddressesOf(data, bad \cap usable) \subseteq known_honeypots
                   /\ known_honeypots \subseteq
                         call[1].known_before \cup AddressesOf(data, bad)

----------------------------------------------------------------------------
(* RiskSpec: the scoring steps of process_opportunities (check_honeypot,   *)
(* the branch on the risk, predict_viability) run on a researched record,  *)
(* and run again on the same record, research, clock and history by a      *)
(* system whose HoneypotDetector is in another state.                      *)

\* The records the scraper emits for the scanner's lines
ScannerRecords == {ParseLine(EmptyDict, <<>>, l, 0).ret[1] : l \in {L_R1, L_R2}}

\* known_honeypots and known_safe of a detector
DetectorLists == {{}, {"0xA"}, {"0xA", "0xB"}}

\* The record of one run of the scoring steps
ProcessCall(opp, research, forest, kh, ks, ml) ==
    LET risk == CheckHoneypot(opp, research, forest, kh, ks, ml)
    IN [op |-> "process_opportunities", opportunity |-> opp, research |-> research,
        via |-> "call", risk |-> risk, scored |-> Scored(opp, research, risk, now)]

\* research_pair(opp) has returned: check_honeypot, the branch on the risk
\* and predict_viability
ProcessRecord ==
    /\ call = <<>>
    /\ \E opp \in ScannerRecords, w \in Worlds, ml \in MlAnswers :
          /\ isolation_forest \/ ~ml.ok
          /\ \E research \in {ResearchPair(opp, w, EmptyDict, now).research} :
                call' = <<ProcessCall(opp, research, isolation_forest, known_honeypots,
                                      known_safe, ml)>>
    /\ before' = <<>>
    /\ UNCHANGED <<svars, pvars, known_safe, execution_history, success_rates, executions>>

\* The same steps on the same record and research, the detector being in
\* another state
ProcessAgain ==
    /\ call # <<>>
    /\ before = <<>>
    /\ \E forest \in BOOLEAN, kh \in DetectorLists, ks \in DetectorLists, ml \in MlAnswers :
          /\ forest \/ ~ml.ok
          /\ isolation_forest' = forest
          /\ known_honeypots' = kh
          /\ known_safe' = ks
          /\ call' = <<ProcessCall(call[1].opportunity, call[1].research, forest, kh, ks, ml)>>
    /\ before' = call
    /\ UNCHANGED <<svars, is_running, rust_process, opportunities_queue, cache, main,
                   producer, consumer, opportunity, stored, predicted, dequeued, reads,
                   execution_history, success_rates, executions>>

RiskNext ==
    \/ PredictorTick
    \/ ProcessRecord
    \/ ProcessAgain

RiskSpec == DetectorInit /\ [][RiskNext]_vars

----------------------------------------------------------------------------
(* Properties of the two runs (RiskSpec) *)

\* research['risk_factors']['honeypot_risk'], as the research collaborator
\* supplied it
ResearchedRisk(research) ==
    Get(Get(research, "risk_factors", EmptyDict), "honeypot_risk", 0)

\* The research with a honeypot_risk of 0
WithoutResearchedRisk(research) ==
    Put(research, "risk_factors", Put(research["risk_factors"], "honeypot_risk", 0))

\* The score of a run went through the honeypot penalty exactly when the
\* researched risk is above 0.5, by the factor 1 - that risk
PenaltyFromResearch(c) ==
    LET r == ResearchedRisk(c.research)
        unpenalised == PredictViability(c.opportunity, WithoutResearchedRisk(c.research),
                                        now, <<>>)
    IN c.scored["viability_score"] =
          IF r > 500 THEN RatMul(unpenalised, Milli(1000 - r)) ELSE unpenalised

\* C30: the viability score of a record does not depend on the risk the
\* detector computed for it: two runs on the same opportunity, research,
\* clock and history that differ only in the detector's state and both find
\* a risk of at most 0.7 give the same predict_viability result, and the
\* honeypot penalty follows research.risk_factors.honeypot_risk only.
C30_ViabilityIgnoresDetectorRisk ==
    (call # <<>> /\ before # <<>> /\ call[1].op = "process_opportunities"
     /\ ~ShortCircuit(call[1].risk) /\ ~ShortCircuit(before[1].risk)) =>
        /\ call[1].scored["viability_score"] = before[1].scored["viability_score"]
        /\ PenaltyFromResearch(call[1])
        /\ PenaltyFromResearch(before[1])

\* C30 witness: the detector found 0.7 in one run and less in the other (one
\* of them above 0.5), the research says 0.8, and both scores carry the
\* penalty of the research
C30_Witness ==
    /\ call # <<>>
    /\ before # <<>>
    /\ call[1].op = "process_opportunities"
    /\ before[1].risk = 700
    /\ call[1].risk < 700
    /\ ResearchedRisk(call[1].research) = 800
    /\ call[1].scored["viability_score"] = before[1].scored["viability_score"]
    /\ call[1].scored["viability_score"] # <<0, 1>>

============================================================================
